---- MODULE Spec2Model ----
(***************************************************************************)
(* nostramp: the identity vault, the activity ledger and the post-preview  *)
(* hook (usePostPreview), modelled as a state machine over the browser's   *)
(* two key/value stores, the relay network and the hook's React state.     *)
(*                                                                         *)
(* Every `await` of the source is a suspension point: an asynchronous      *)
(* operation is one action up to its first await and one action per        *)
(* resumption; what it holds in local variables across the await is kept   *)
(* in a record of the bag of in-flight calls of its kind.                  *)
(***************************************************************************)
EXTENDS Integers, Sequences, FiniteSets, Bags, TLC

VARIABLES
    activity,      \* localStorage['nostramp_user_activity'] (NoRecord when absent)
    encrypted,     \* localStorage['nostramp_encrypted_identity'] (NoRecord when absent)
    ephemeralKey,  \* localStorage['nostramp_ephemeral_key'] ("null" when absent)
    visitCount,    \* localStorage['nostramp_visit_count'] (0 when absent)
    claimedFlag,   \* localStorage['nostramp_has_claimed'] = 'true'
    page,          \* the mounted PreviewPage's React state
    sessionKey,    \* sessionStorage['nostramp_session_key'] ("null" when absent)
    durableFull,   \* localStorage.setItem throws (quota exceeded / disabled)
    sessionFull,   \* sessionStorage.setItem throws
    creates,       \* bag of createEncryptedIdentity calls suspended in encryptIdentity
    unlocks,       \* bag of unlockIdentity calls suspended in decryptIdentity
    others,        \* relays: number of like reactions by other identities (per item)
    netLikes,      \* relays: number of like reactions per item and signing key
    netReplies,    \* relays: replies to each item, newest first
    eventId,       \* the hook's argument (route parameter)
    data,          \* the hook's React state (PostPreviewData)
    fetches,       \* bag of fetchData runs suspended at an await
    likeCalls,     \* bag of toggleLike calls suspended in publishLike
    replyCalls,    \* bag of postReply calls suspended in publishReply
    ret,           \* what the operation that completed in this step returned
    tallyOk,       \* history: the last completed fetch got the relays' reaction tally
    scen,          \* history: monitor of the like-then-unlike scenario
    unliked        \* history: the item toggleLike last removed from the ledger

vars == <<activity, encrypted, ephemeralKey, visitCount, claimedFlag, page,
          sessionKey, durableFull, sessionFull, creates, unlocks, others, netLikes,
          netReplies, eventId, data, fetches, likeCalls, replyCalls, ret, tallyOk,
          scen, unliked>>

visitVars == <<visitCount, claimedFlag, page>>
faultVars == <<durableFull, sessionFull>>
idCallVars == <<creates, unlocks>>
netVars == <<others, netLikes, netReplies>>
hookVars == <<eventId, data, fetches, likeCalls, replyCalls>>
histVars == <<tallyOk, scen, unliked>>

----------------------------------------------------------------------------
(* Bounds of the model *)

\* most like reactions by other identities on an item
MaxOthers == 1
\* most like reactions published through toggleLike in one run
MaxLikes == 2
\* most replies published through postReply in one run
MaxReplies == 2
\* what a changed byte of a stored record differs by
ByteChanges == {1, 128}
\* longest password handed to validatePassword
MaxPasswordLen == 130
\* largest count in an activity record found in the durable store
MaxStoredCount == 2
\* most PreviewPage visits counted
MaxVisits == 3
\* most hook operations (fetchData, toggleLike, postReply) suspended at once
MaxInFlight == 2
\* most identity operations (create, unlock) suspended at once
MaxIdCalls == 2

\* content items (hex event ids)
Items == {"a", "b"}
\* private keys; "null" is the absent key
Keys == {"k1", "k2"}

NoRecord == [absent |-> TRUE]
NoRet == [op |-> "none"]

(* Bag helpers: one more / one fewer copy of call c in bag B *)
BagAdd(B, c) == B (+) SetToBag({c})
BagDel(B, c) == B (-) SetToBag({c})
BagSize(B) == BagCardinality(B)

RECURSIVE SeqToSet(_)
SeqToSet(s) == IF s = <<>> THEN {} ELSE {Head(s)} \cup SeqToSet(Tail(s))

\* Array.prototype.includes
Includes(s, x) == \E i \in 1..Len(s) : s[i] = x

\* Array.prototype.indexOf, 1-based; 0 when absent (the source's -1)
IndexOf(s, x) == IF Includes(s, x)
                 THEN CHOOSE i \in 1..Len(s) : s[i] = x /\ \A j \in 1..(i-1) : s[j] # x
                 ELSE 0

\* Array.prototype.splice(index, 1)
Splice(s, i) == SubSeq(s, 1, i-1) \o SubSeq(s, i+1, Len(s))

Max(a, b) == IF a >= b THEN a ELSE b

----------------------------------------------------------------------------
(* ActivityLedger: storage.identity.ts *)

getDefaultActivity ==
    [replies |-> 0, likes |-> 0, saves |-> 0,
     likedEvents |-> <<>>, savedEvents |-> <<>>, replyEvents |-> <<>>]

\* getUserActivity: the stored record, or the default when nothing is stored
getUserActivity == IF activity = NoRecord THEN getDefaultActivity ELSE activity

\* saveUserActivity: the value of the store after the call; a throwing setItem
\* is caught and logged, and the store keeps what it had
saveUserActivity(a) == IF durableFull THEN activity ELSE a

\* The in-memory record each operation builds from the record it read
LikeAdded(a, id) ==
    [a EXCEPT !.likedEvents = Append(@, id), !.likes = @ + 1]
LikeRemoved(a, id) ==
    [a EXCEPT !.likedEvents = Splice(@, IndexOf(@, id)), !.likes = Max(0, @ - 1)]
SaveAdded(a, id) ==
    [a EXCEPT !.savedEvents = Append(@, id), !.saves = @ + 1]
SaveRemoved(a, id) ==
    [a EXCEPT !.savedEvents = Splice(@, IndexOf(@, id)), !.saves = Max(0, @ - 1)]
ReplyAdded(a, id) ==
    [a EXCEPT !.replyEvents = Append(@, id), !.replies = @ + 1]

\* recordLike without the `includes` guard
recordLike_NoGuard(id) ==
    <<LikeAdded(getUserActivity, id), saveUserActivity(LikeAdded(getUserActivity, id))>>

\* recordLike etc.: <<returned record, store afterwards>>
recordLike(id) ==
    LET a == getUserActivity IN
    IF ~Includes(a.likedEvents, id)
    THEN <<LikeAdded(a, id), saveUserActivity(LikeAdded(a, id))>>
    ELSE <<a, activity>>

\* removeLike decrementing and persisting whether or not the id is found
removeLike_NoGuard(id) ==
    LET a == getUserActivity IN
    IF IndexOf(a.likedEvents, id) > 0
    THEN <<LikeRemoved(a, id), saveUserActivity(LikeRemoved(a, id))>>
    ELSE <<[a EXCEPT !.likes = @ - 1], saveUserActivity([a EXCEPT !.likes = @ - 1])>>

removeLike(id) ==
    LET a == getUserActivity IN
    IF IndexOf(a.likedEvents, id) > 0
    THEN <<LikeRemoved(a, id), saveUserActivity(LikeRemoved(a, id))>>
    ELSE <<a, activity>>

recordSave(id) ==
    LET a == getUserActivity IN
    IF ~Includes(a.savedEvents, id)
    THEN <<SaveAdded(a, id), saveUserActivity(SaveAdded(a, id))>>
    ELSE <<a, activity>>

removeSave(id) ==
    LET a == getUserActivity IN
    IF IndexOf(a.savedEvents, id) > 0
    THEN <<SaveRemoved(a, id), saveUserActivity(SaveRemoved(a, id))>>
    ELSE <<a, activity>>

\* recordReply without the `includes` guard
recordReply_NoGuard(id) ==
    <<ReplyAdded(getUserActivity, id), saveUserActivity(ReplyAdded(getUserActivity, id))>>

\* recordReply counting every reply: the count goes up outside the guard
recordReply_CountsEveryReply(id) ==
    LET a == getUserActivity IN
    IF ~Includes(a.replyEvents, id)
    THEN <<ReplyAdded(a, id), saveUserActivity(ReplyAdded(a, id))>>
    ELSE <<[a EXCEPT !.replies = @ + 1], saveUserActivity([a EXCEPT !.replies = @ + 1])>>

recordReply(id) ==
    LET a == getUserActivity IN
    IF ~Includes(a.replyEvents, id)
    THEN <<ReplyAdded(a, id), saveUserActivity(ReplyAdded(a, id))>>
    ELSE <<a, activity>>

hasLikedEvent(id) == Includes(getUserActivity.likedEvents, id)
hasSavedEvent(id) == Includes(getUserActivity.savedEvents, id)

----------------------------------------------------------------------------
(* KeyVault: security/crypto.ts.  Strings are well-formed, so TextEncoder is *)
(* one-to-one and TextDecoder undoes it.  A Uint8Array is a sequence of     *)
(* numbers 0..255 and a base64 text a sequence of alphabet indices 0..63    *)
(* with 64 for '='.  PBKDF2 and AES-GCM are ideal: a derived key is the     *)
(* pair it was derived from, and the bytes AES-GCM produces open only under *)
(* the key and the nonce they were sealed with.                             *)

Passwords == {"short", "password1", "password2"}
\* the salts and nonces crypto.getRandomValues draws: the 16 bytes of a salt
\* leave one byte over in base64, the 12 bytes of a nonce none
Salts == {<<17>>, <<250>>}
Ivs == {<<1, 2, 3>>}

\* a password of n characters
RECURSIVE PasswordOfLength(_)
PasswordOfLength(n) ==
    IF n = 0 THEN ""
    ELSE IF n = 1 THEN "a"
    ELSE PasswordOfLength(n \div 2) \o PasswordOfLength(n - n \div 2)

\* validatePassword taking its second message at its word
validatePassword_LessThan128(password) ==
    IF Len(password) < 8 THEN "Password must be at least 8 characters"
    ELSE IF Len(password) >= 128 THEN "Password must be less than 128 characters"
    ELSE "none"

\* validatePassword: the error message, "none" when the password is valid
validatePassword(password) ==
    IF Len(password) < 8 THEN "Password must be at least 8 characters"
    ELSE IF Len(password) > 128 THEN "Password must be less than 128 characters"
    ELSE "none"

\* new TextEncoder().encode(s) and new TextDecoder().decode(bytes)
TextEncode(s) == [utf8 |-> s]
TextDecode(bytes) == bytes.utf8

\* what a call that throws leaves in place of a Uint8Array
Thrown == <<-1>>

\* bufferToBase64: String.fromCharCode per byte, then btoa
RECURSIVE bufferToBase64(_)
bufferToBase64(buffer) ==
    IF Len(buffer) = 0 THEN <<>>
    ELSE IF Len(buffer) = 1
    THEN <<buffer[1] \div 4, (buffer[1] % 4) * 16, 64, 64>>
    ELSE IF Len(buffer) = 2
    THEN <<buffer[1] \div 4, (buffer[1] % 4) * 16 + buffer[2] \div 16,
           (buffer[2] % 16) * 4, 64>>
    ELSE <<buffer[1] \div 4, (buffer[1] % 4) * 16 + buffer[2] \div 16,
           (buffer[2] % 16) * 4 + buffer[3] \div 64, buffer[3] % 64>>
         \o bufferToBase64(SubSeq(buffer, 4, Len(buffer)))

\* atob: the padding of a text whose length is a multiple of four is dropped
StripPadding(t) ==
    IF Len(t) > 0 /\ Len(t) % 4 = 0 /\ t[Len(t)] = 64
    THEN IF t[Len(t) - 1] = 64 THEN SubSeq(t, 1, Len(t) - 2) ELSE SubSeq(t, 1, Len(t) - 1)
    ELSE t

\* atob: four symbols give three bytes; the bits left over at the end are dropped
RECURSIVE DecodeSextets(_)
DecodeSextets(t) ==
    IF Len(t) < 2 THEN <<>>
    ELSE IF Len(t) = 2 THEN <<t[1] * 4 + t[2] \div 16>>
    ELSE IF Len(t) = 3
    THEN <<t[1] * 4 + t[2] \div 16, (t[2] % 16) * 16 + t[3] \div 4>>
    ELSE <<t[1] * 4 + t[2] \div 16, (t[2] % 16) * 16 + t[3] \div 4, (t[3] % 4) * 64 + t[4]>>
         \o DecodeSextets(SubSeq(t, 5, Len(t)))

\* base64ToBuffer with a decoder that knows no padding
base64ToBuffer_NoPadding(base64) ==
    IF Len(base64) % 4 = 1 \/ \E i \in 1..Len(base64) : base64[i] \notin 0..63
    THEN Thrown
    ELSE DecodeSextets(base64)

\* base64ToBuffer: atob, then charCodeAt per character; atob throws on a symbol
\* outside the alphabet and on a length that leaves one symbol over
base64ToBuffer(base64) ==
    IF \/ Len(StripPadding(base64)) % 4 = 1
       \/ \E i \in 1..Len(StripPadding(base64)) : StripPadding(base64)[i] \notin 0..63
    THEN Thrown
    ELSE DecodeSextets(StripPadding(base64))

deriveKey(password, salt) == <<TextEncode(password), salt>>

RECURSIVE SetToSeq(_)
SetToSeq(S) ==
    IF S = {} THEN <<>>
    ELSE LET x == CHOOSE y \in S : TRUE IN <<x>> \o SetToSeq(S \ {x})

\* AES-GCM as a code book: every (key, nonce, plaintext) has its own two bytes of
\* output, and no other bytes open under that key and nonce
CodeBook ==
    SetToSeq({<<deriveKey(p, s), iv, TextEncode(k)>> :
                 p \in Passwords, s \in Salts, iv \in Ivs, k \in Keys})

\* crypto.subtle.encrypt
AesGcmEncrypt(key, iv, plain) ==
    LET i == CHOOSE j \in 1..Len(CodeBook) : CodeBook[j] = <<key, iv, plain>>
    IN <<(2 * i) \div 256, (2 * i) % 256>>

\* crypto.subtle.decrypt: the entry of the code book the bytes open to under
\* this key and nonce, 0 when it rejects
AesGcmDecrypt(key, iv, ciphertext) ==
    IF /\ Len(ciphertext) = 2
       /\ \E j \in 1..Len(CodeBook) :
             /\ 2 * j = ciphertext[1] * 256 + ciphertext[2]
             /\ CodeBook[j][1] = key
             /\ CodeBook[j][2] = iv
    THEN (ciphertext[1] * 256 + ciphertext[2]) \div 2
    ELSE 0

\* encryptIdentity with the random salt and nonce it drew
encryptIdentity(privateKeyHex, password, salt, iv) ==
    [ciphertext |-> bufferToBase64(AesGcmEncrypt(deriveKey(password, salt), iv,
                                                 TextEncode(privateKeyHex))),
     iv |-> bufferToBase64(iv),
     salt |-> bufferToBase64(salt)]

\* decryptIdentity letting what its try block throws reach the caller
decryptIdentity_NoCatch(enc, password) ==
    IF \/ base64ToBuffer(enc.salt) = Thrown
       \/ base64ToBuffer(enc.iv) = Thrown
       \/ base64ToBuffer(enc.ciphertext) = Thrown
    THEN "thrown"
    ELSE LET opened == AesGcmDecrypt(deriveKey(password, base64ToBuffer(enc.salt)),
                                     base64ToBuffer(enc.iv),
                                     base64ToBuffer(enc.ciphertext))
         IN IF opened = 0 THEN "thrown" ELSE TextDecode(CodeBook[opened][3])

\* decryptIdentity: the plaintext, "null" when anything in its try block throws
decryptIdentity(enc, password) ==
    IF \/ base64ToBuffer(enc.salt) = Thrown
       \/ base64ToBuffer(enc.iv) = Thrown
       \/ base64ToBuffer(enc.ciphertext) = Thrown
    THEN "null"
    ELSE LET opened == AesGcmDecrypt(deriveKey(password, base64ToBuffer(enc.salt)),
                                     base64ToBuffer(enc.iv),
                                     base64ToBuffer(enc.ciphertext))
         IN IF opened = 0 THEN "null" ELSE TextDecode(CodeBook[opened][3])

\* getPublicKey of the signing library: one-way, one public key per private key
getPublicKeyFromPrivate(k) == IF k = "k1" THEN "p1" ELSE IF k = "k2" THEN "p2" ELSE "p?"

----------------------------------------------------------------------------
(* IdentitySession: storage.identity.ts *)

hasEncryptedIdentity == encrypted # NoRecord
getEncryptedIdentity == encrypted

getSessionKey ==
    IF sessionKey # "null"
    THEN [privateKey |-> sessionKey, publicKey |-> getPublicKeyFromPrivate(sessionKey)]
    ELSE NoRecord

getIdentityState ==
    IF getSessionKey # NoRecord
    THEN [publicKey |-> getSessionKey.publicKey, isLocked |-> FALSE, hasIdentity |-> TRUE]
    ELSE [publicKey |-> "null", isLocked |-> hasEncryptedIdentity,
          hasIdentity |-> hasEncryptedIdentity]

\* What createEncryptedIdentity returns, with the call's argument and the
\* ephemeral key the store held when the call was made (history, read by the properties)
CreateReturn(publicKey, error, password, ephemeral) ==
    [op |-> "createIdentity", publicKey |-> publicKey, error |-> error,
     password |-> password, ephemeral |-> ephemeral]

\* createEncryptedIdentity without the hasEncryptedIdentity check
CreateOutcome_NoExistsCheck(password) ==
    IF validatePassword(password) # "none"
    THEN CreateReturn("", validatePassword(password), password, ephemeralKey)
    ELSE NoRet

\* createEncryptedIdentity up to `await encryptIdentity`: what it returns there,
\* NoRet when it goes on
CreateOutcome(password) ==
    IF validatePassword(password) # "none"
    THEN CreateReturn("", validatePassword(password), password, ephemeralKey)
    ELSE IF hasEncryptedIdentity
    THEN CreateReturn("", "Identity already exists", password, ephemeralKey)
    ELSE NoRet

CreateStart(password) ==
    /\ BagSize(creates) + BagSize(unlocks) < MaxIdCalls
    /\ IF CreateOutcome(password) # NoRet
       THEN /\ ret' = CreateOutcome(password)
            /\ UNCHANGED creates
       ELSE /\ \E k \in Keys :     \* generateEphemeralKeypair
                creates' = BagAdd(creates, [password |-> password, privateKey |-> k,
                                            ephemeral |-> ephemeralKey])
            /\ ret' = NoRet
    /\ UNCHANGED <<activity, encrypted, ephemeralKey, visitVars, sessionKey, faultVars,
                   unlocks, netVars, hookVars, histVars>>

\* createEncryptedIdentity from the resolution of encryptIdentity to its return:
\* <<identity record in the store afterwards, returned value>>
CreateStored(c, salt, iv) ==
    IF durableFull
    THEN <<encrypted, CreateReturn("", "Failed to store identity", c.password, c.ephemeral)>>
    ELSE <<encryptIdentity(c.privateKey, c.password, salt, iv),
           CreateReturn(getPublicKeyFromPrivate(c.privateKey), "none", c.password,
                        c.ephemeral)>>

\* createEncryptedIdentity caching the new key for the session
CreateResume_AutoUnlock ==
    \E c \in BagToSet(creates), salt \in Salts, iv \in Ivs :
        /\ creates' = BagDel(creates, c)
        /\ encrypted' = CreateStored(c, salt, iv)[1]
        /\ sessionKey' = IF CreateStored(c, salt, iv)[2].error = "none"
                         THEN c.privateKey ELSE sessionKey
        /\ ret' = CreateStored(c, salt, iv)[2]
        /\ UNCHANGED <<activity, ephemeralKey, visitVars, faultVars, unlocks,
                       netVars, hookVars, histVars>>

CreateResume ==
    \E c \in BagToSet(creates), salt \in Salts, iv \in Ivs :
        /\ creates' = BagDel(creates, c)
        /\ encrypted' = CreateStored(c, salt, iv)[1]
        /\ ret' = CreateStored(c, salt, iv)[2]
        /\ UNCHANGED <<activity, ephemeralKey, visitVars, sessionKey, faultVars, unlocks,
                       netVars, hookVars, histVars>>

\* createEncryptedIdentity when `await encryptIdentity` rejects (crypto.subtle
\* is missing or refuses): the await is outside the try block, so the call
\* itself rejects and returns nothing
CreateRejects ==
    \E c \in BagToSet(creates) :
        /\ creates' = BagDel(creates, c)
        /\ ret' = [op |-> "createIdentity", thrown |-> TRUE, publicKey |-> "",
                   error |-> "none", password |-> c.password, ephemeral |-> c.ephemeral]
        /\ UNCHANGED <<activity, encrypted, ephemeralKey, visitVars, sessionKey, faultVars,
                       unlocks, netVars, hookVars, histVars>>

\* What unlockIdentity returns, with the call's arguments and the record it
\* loaded (history, read by the properties)
UnlockReturn(privateKey, publicKey, error, c) ==
    [op |-> "unlock", privateKey |-> privateKey, publicKey |-> publicKey, error |-> error,
     password |-> c.password, rememberSession |-> c.rememberSession,
     encrypted |-> c.encrypted]

\* unlockIdentity up to `await decryptIdentity`
UnlockStart(password, rememberSession) ==
    /\ BagSize(creates) + BagSize(unlocks) < MaxIdCalls
    /\ IF getEncryptedIdentity = NoRecord
       THEN /\ ret' = UnlockReturn("", "", "No identity found",
                                   [password |-> password,
                                    rememberSession |-> rememberSession,
                                    encrypted |-> NoRecord])
            /\ UNCHANGED unlocks
       ELSE /\ unlocks' = BagAdd(unlocks, [password |-> password,
                                           rememberSession |-> rememberSession,
                                           encrypted |-> getEncryptedIdentity])
            /\ ret' = NoRet
    /\ UNCHANGED <<activity, encrypted, ephemeralKey, visitVars, sessionKey, faultVars,
                   creates, netVars, hookVars, histVars>>

\* unlockIdentity dropping the cached session key when the password is wrong
UnlockOutcome_ClearsSession(c) ==
    LET privateKey == decryptIdentity(c.encrypted, c.password) IN
    IF privateKey = "null"
    THEN <<"null", UnlockReturn("", "", "Invalid password", c)>>
    ELSE <<IF c.rememberSession /\ ~sessionFull THEN privateKey ELSE sessionKey,
           UnlockReturn(privateKey, getPublicKeyFromPrivate(privateKey), "none", c)>>

\* unlockIdentity from the resolution of decryptIdentity to its return:
\* <<session store afterwards, returned value>>
UnlockOutcome(c) ==
    LET privateKey == decryptIdentity(c.encrypted, c.password) IN
    IF privateKey = "null"
    THEN <<sessionKey, UnlockReturn("", "", "Invalid password", c)>>
    ELSE <<IF c.rememberSession /\ ~sessionFull THEN privateKey ELSE sessionKey,
           UnlockReturn(privateKey, getPublicKeyFromPrivate(privateKey), "none", c)>>

UnlockResume ==
    \E c \in BagToSet(unlocks) :
        /\ unlocks' = BagDel(unlocks, c)
        /\ sessionKey' = UnlockOutcome(c)[1]
        /\ ret' = UnlockOutcome(c)[2]
        /\ UNCHANGED <<activity, encrypted, ephemeralKey, visitVars, faultVars, creates,
                       netVars, hookVars, histVars>>

\* handleLock also dropping the stored identity record
Lock_RemovesRecord ==
    /\ sessionKey' = "null"
    /\ encrypted' = NoRecord
    /\ ret' = [op |-> "lock", cached |-> sessionKey]
    /\ UNCHANGED <<activity, ephemeralKey, visitVars, faultVars, idCallVars,
                   netVars, hookVars, histVars>>

\* clearSessionKey (IdentityPage handleLock); the returned record remembers the
\* key the session store held (history, read by the properties)
Lock ==
    /\ sessionKey' = "null"
    /\ ret' = [op |-> "lock", cached |-> sessionKey]
    /\ UNCHANGED <<activity, encrypted, ephemeralKey, visitVars, faultVars, idCallVars,
                   netVars, hookVars, histVars>>

\* clearIdentityData
ClearIdentityData ==
    /\ encrypted' = NoRecord
    /\ activity' = NoRecord
    /\ sessionKey' = "null"
    /\ ret' = [op |-> "clearIdentityData"]
    /\ UNCHANGED <<ephemeralKey, visitVars, faultVars, idCallVars, netVars, hookVars,
                   histVars>>

----------------------------------------------------------------------------
(* Ephemeral key and visit tracking: storage.ts and PreviewPage's mount effect *)

getEphemeralKey == ephemeralKey
getVisitCount == visitCount
hasClaimed == claimedFlag

\* setEphemeralKey: the store afterwards
setEphemeralKey(k) == IF durableFull THEN ephemeralKey ELSE k

\* incrementVisitCount: <<returned count, store afterwards>>
incrementVisitCount ==
    IF durableFull THEN <<getVisitCount, visitCount>>
    ELSE <<getVisitCount + 1, getVisitCount + 1>>

\* PreviewPage useEffect([]) with the keypair generateEphemeralKeypair draws
PreviewMount(k) ==
    /\ visitCount < MaxVisits
    /\ ephemeralKey' = IF getEphemeralKey # "null" THEN ephemeralKey
                       ELSE setEphemeralKey(k)
    /\ visitCount' = incrementVisitCount[2]
    /\ page' = [currentPrivateKey |-> IF getEphemeralKey # "null" THEN getEphemeralKey ELSE k,
                visitCount |-> incrementVisitCount[1],
                claimed |-> hasClaimed,
                showClaimModal |-> FALSE]
    /\ ret' = [op |-> "mount"]
    /\ UNCHANGED <<activity, encrypted, claimedFlag, sessionKey, faultVars, idCallVars,
                   netVars, hookVars, histVars>>

\* the header shows the Claim Identity button
ClaimOffered(p) == p.currentPrivateKey # "null" /\ ~p.claimed /\ p.visitCount >= 2

\* handleClaimIdentity: the Claim Identity button is pressed
ClaimIdentity ==
    /\ page # NoRecord
    /\ ClaimOffered(page)
    /\ page' = [page EXCEPT !.showClaimModal = TRUE]
    /\ ret' = [op |-> "claimIdentity"]
    /\ UNCHANGED <<activity, encrypted, ephemeralKey, visitCount, claimedFlag, sessionKey,
                   faultVars, idCallVars, netVars, hookVars, histVars>>

\* the claim modal is closed by its overlay or its Close button
DismissClaim ==
    /\ page # NoRecord
    /\ page.showClaimModal
    /\ page' = [page EXCEPT !.showClaimModal = FALSE]
    /\ ret' = [op |-> "dismissClaim"]
    /\ UNCHANGED <<activity, encrypted, ephemeralKey, visitCount, claimedFlag, sessionKey,
                   faultVars, idCallVars, netVars, hookVars, histVars>>

\* handleMarkAsClaimed -> markAsClaimed, from the button of the claim modal
\* with the prompt left showing
MarkAsClaimed_KeepsPrompt ==
    /\ page # NoRecord
    /\ page.showClaimModal
    /\ claimedFlag' = (IF durableFull THEN claimedFlag ELSE TRUE)
    /\ page' = [page EXCEPT !.showClaimModal = FALSE]
    /\ ret' = [op |-> "markAsClaimed"]
    /\ UNCHANGED <<activity, encrypted, ephemeralKey, visitCount, sessionKey, faultVars,
                   idCallVars, netVars, hookVars, histVars>>

\* handleMarkAsClaimed -> markAsClaimed, from the button of the claim modal
MarkAsClaimed ==
    /\ page # NoRecord
    /\ page.showClaimModal
    /\ claimedFlag' = (IF durableFull THEN claimedFlag ELSE TRUE)
    /\ page' = [page EXCEPT !.claimed = TRUE, !.showClaimModal = FALSE]
    /\ ret' = [op |-> "markAsClaimed"]
    /\ UNCHANGED <<activity, encrypted, ephemeralKey, visitCount, sessionKey, faultVars,
                   idCallVars, netVars, hookVars, histVars>>

\* clearStorage
ClearStorage ==
    /\ ephemeralKey' = "null"
    /\ visitCount' = 0
    /\ claimedFlag' = FALSE
    /\ ret' = [op |-> "clearStorage"]
    /\ UNCHANGED <<activity, encrypted, page, sessionKey, faultVars, idCallVars, netVars,
                   hookVars, histVars>>

\* getProfileKey: the durable unencrypted key record, "null" when there is none
getProfileKey == ephemeralKey

\* createProfile with the keypair it generates (the frictionless createIdentity):
\* <<durable record afterwards, session cache afterwards, returned private key>>,
\* the returned key "" when an identity record exists or the record cannot be written
createProfile(k) ==
    IF getProfileKey # "null" \/ hasEncryptedIdentity \/ durableFull
    THEN <<ephemeralKey, sessionKey, "">>
    ELSE <<k, IF sessionFull THEN sessionKey ELSE k, k>>

\* getOrCreateProfileKeys with the keypairs createProfile and the fallback
\* generateEphemeralKeypair draw: <<durable record, session cache, private key returned>>
getOrCreateProfileKeys(k, fallback) ==
    IF getProfileKey # "null" THEN <<ephemeralKey, sessionKey, getProfileKey>>
    ELSE IF createProfile(k)[3] # "" THEN createProfile(k)
    ELSE <<createProfile(k)[1], createProfile(k)[2], fallback>>

\* ensureIdentity, the first step of handlePostReply and handleToggleLike: the
\* private key the reply or like is signed with
EnsureIdentity ==
    /\ \E k \in Keys, fallback \in Keys :
          /\ ephemeralKey' = getOrCreateProfileKeys(k, fallback)[1]
          /\ sessionKey' = getOrCreateProfileKeys(k, fallback)[2]
          /\ ret' = [op |-> "ensureIdentity",
                     privateKey |-> getOrCreateProfileKeys(k, fallback)[3]]
    /\ UNCHANGED <<activity, encrypted, visitVars, faultVars, idCallVars, netVars,
                   hookVars, histVars>>

----------------------------------------------------------------------------
(* The stores' failure mode: setItem starts or stops throwing *)

StorageFault ==
    /\ \E d \in BOOLEAN, s \in BOOLEAN :
          /\ <<d, s>> # <<durableFull, sessionFull>>
          /\ durableFull' = d
          /\ sessionFull' = s
    /\ ret' = NoRet
    /\ UNCHANGED <<activity, encrypted, ephemeralKey, visitVars, sessionKey, idCallVars,
                   netVars, hookVars, histVars>>

----------------------------------------------------------------------------
(* The ledger's operations called directly; the returned record remembers *)
(* whether the call changed the store (history, read by the properties)   *)

LedgerOp(op, id) ==
    LET r == CASE op = "recordLike" -> recordLike(id)
               [] op = "removeLike" -> removeLike(id)
               [] op = "recordSave" -> recordSave(id)
               [] op = "removeSave" -> removeSave(id)
               [] op = "recordReply" -> recordReply(id)
    IN /\ activity' = r[2]
       /\ ret' = [op |-> op, id |-> id, value |-> r[1], changed |-> (r[2] # activity)]
       /\ UNCHANGED <<encrypted, ephemeralKey, visitVars, sessionKey, faultVars,
                      idCallVars, netVars, hookVars, histVars>>

RecordLike == \E id \in Items : LedgerOp("recordLike", id)
RemoveLike == \E id \in Items : LedgerOp("removeLike", id)
RecordSave == \E id \in Items : LedgerOp("recordSave", id)
RemoveSave == \E id \in Items : LedgerOp("removeSave", id)
RecordReply == \E id \in Items : LedgerOp("recordReply", id)

----------------------------------------------------------------------------
(* The relay network, seen through nostr.ts *)

Identifiers == {"undefined", "junk", "note1a", "nevent1b"}

\* decodeEventId: the hex id, "null" when the identifier is malformed
decodeEventId(eid) ==
    IF eid = "note1a" THEN "a" ELSE IF eid = "nevent1b" THEN "b" ELSE "null"

RECURSIVE SumOver(_, _)
SumOver(f, S) == IF S = {} THEN 0
                 ELSE LET x == CHOOSE y \in S : TRUE IN f[x] + SumOver(f, S \ {x})

ZeroCounts == [likes |-> 0, reposts |-> 0, zaps |-> 0, replies |-> 0]

\* fetchReactions when its queries succeed: the tally over the relays' events
NetTally(id) ==
    [likes |-> others + SumOver(netLikes[id], Keys), reposts |-> 1, zaps |-> 1,
     replies |-> Len(netReplies[id])]

\* fetchUserLikedEvent when its query succeeds
NetUserLiked(id, pubkey) ==
    \E k \in Keys : getPublicKeyFromPrivate(k) = pubkey /\ netLikes[id][k] > 0

\* fetchUserReplies when its query succeeds: the identity's replies, newest first
NetUserReplies(id, pubkey) == SelectSeq(netReplies[id], LAMBDA e : e.by = pubkey)

\* like reactions and replies on the relays, over all items
TotalLikes == SumOver([i \in Items |-> SumOver(netLikes[i], Keys)], Items)
TotalReplies == SumOver([i \in Items |-> Len(netReplies[i])], Items)

\* parseContent, symbolic: the parse of item id's content
parseContent(id) == [text |-> id, images |-> <<>>, videos |-> <<>>]

----------------------------------------------------------------------------
(* InteractionAggregator: hooks/usePostPreview.ts *)

InitialData ==
    [event |-> "null", profile |-> "null", reactions |-> ZeroCounts,
     parsedContent |-> [text |-> "", images |-> <<>>, videos |-> <<>>],
     isLoading |-> TRUE, error |-> "null", isVerified |-> FALSE, replies |-> <<>>,
     userActivity |-> getDefaultActivity, isLikedByUser |-> FALSE, userReplies |-> <<>>]

\* the hook's operations suspended at an await
InFlight == BagSize(fetches) + BagSize(likeCalls) + BagSize(replyCalls)

\* what PreviewPage renders on the like button
DisplayedLikes(d) == d.reactions.likes + (IF d.isLikedByUser THEN 1 ELSE 0)

\* the activity record as getUserActivity reads it from store value st
ActivityOf(st) == IF st = NoRecord THEN getDefaultActivity ELSE st

\* the local variables of a fetchData run, at its first await
NewFetch(eid) ==
    [eid |-> eid, id |-> decodeEventId(eid), pc |-> "event", profile |-> "null",
     reactions |-> ZeroCounts, replies |-> <<>>, isVerified |-> FALSE,
     isLikedByUser |-> FALSE, publicKey |-> "null", networkLiked |-> FALSE]

\* fetchData asking the relays whatever decodeEventId made of the identifier
FetchBegin_NoDecodeCheck(eid, d, fs) ==
    IF eid = "undefined"
    THEN <<[d EXCEPT !.isLoading = FALSE, !.error = "No event ID provided"], fs>>
    ELSE <<[d EXCEPT !.isLoading = TRUE, !.error = "null"], BagAdd(fs, NewFetch(eid))>>

\* fetchData up to its first await: <<data, fetches>> afterwards
FetchBegin(eid, d, fs) ==
    IF eid = "undefined"
    THEN <<[d EXCEPT !.isLoading = FALSE, !.error = "No event ID provided"], fs>>
    ELSE IF decodeEventId(eid) = "null"
    THEN <<[d EXCEPT !.isLoading = FALSE, !.error = "Invalid event ID"], fs>>
    ELSE <<[d EXCEPT !.isLoading = TRUE, !.error = "null"], BagAdd(fs, NewFetch(eid))>>

FetchReturned(eid) ==
    IF eid = "undefined" \/ decodeEventId(eid) = "null"
    THEN [op |-> "fetch", eid |-> eid]
    ELSE NoRet

\* refetch
FetchStart ==
    /\ InFlight < MaxInFlight
    /\ data' = FetchBegin(eventId, data, fetches)[1]
    /\ fetches' = FetchBegin(eventId, data, fetches)[2]
    /\ ret' = FetchReturned(eventId)
    /\ scen' = NoRecord
    /\ unliked' = unliked
    /\ UNCHANGED <<activity, encrypted, ephemeralKey, visitVars, sessionKey, faultVars,
                   idCallVars, netVars, eventId, likeCalls, replyCalls, tallyOk>>

\* the route parameter changes; useEffect([eventId]) runs fetchData
ChangeEventId ==
    \E eid \in Identifiers \ {eventId} :
        /\ InFlight < MaxInFlight
        /\ eventId' = eid
        /\ data' = FetchBegin(eid, data, fetches)[1]
        /\ fetches' = FetchBegin(eid, data, fetches)[2]
        /\ ret' = FetchReturned(eid)
        /\ scen' = NoRecord
        /\ unliked' = unliked
        /\ UNCHANGED <<activity, encrypted, ephemeralKey, visitVars, sessionKey,
                       faultVars, idCallVars, netVars, likeCalls, replyCalls, tallyOk>>

\* the error paths of fetchData recording the error and leaving isLoading as it is
FetchFailed_KeepsLoading(d, msg) == [d EXCEPT !.error = msg]

\* the catch block of fetchData, and the error returns
FetchFailed(d, msg) == [d EXCEPT !.isLoading = FALSE, !.error = msg]

\* `await fetchEvent` resolves: null (not found, or its query failed) or the event
FetchEventResolved ==
    \E f \in BagToSet(fetches), found \in BOOLEAN :
        /\ f.pc = "event"
        /\ IF found
           THEN /\ fetches' = BagAdd(BagDel(fetches, f), [f EXCEPT !.pc = "parallel"])
                /\ data' = data
                /\ ret' = NoRet
           ELSE /\ fetches' = BagDel(fetches, f)
                /\ data' = FetchFailed(data, "Event not found. It may not exist on the relays.")
                /\ ret' = [op |-> "fetch", eid |-> f.eid]
        /\ scen' = NoRecord
        /\ unliked' = unliked
        /\ UNCHANGED <<activity, encrypted, ephemeralKey, visitVars, sessionKey,
                       faultVars, idCallVars, netVars, eventId, likeCalls, replyCalls,
                       tallyOk>>

\* an await of fetchData outside the inner try blocks rejects: the catch block
FetchThrows ==
    \E f \in BagToSet(fetches) :
        /\ f.pc \in {"event", "parallel"}
        /\ fetches' = BagDel(fetches, f)
        /\ data' = FetchFailed(data, "Failed to load event. Please try again.")
        /\ ret' = [op |-> "fetch", eid |-> f.eid]
        /\ scen' = NoRecord
        /\ unliked' = unliked
        /\ UNCHANGED <<activity, encrypted, ephemeralKey, visitVars, sessionKey,
                       faultVars, idCallVars, netVars, eventId, likeCalls, replyCalls,
                       tallyOk>>

\* fetchData giving up when the reaction query gave nothing
Snapshot_FailsOnEmptyTally(f, userReplies, st) ==
    IF f.reactions = ZeroCounts
    THEN FetchFailed(data, "Failed to load event. Please try again.")
    ELSE [event |-> f.id, profile |-> f.profile, reactions |-> f.reactions,
          parsedContent |-> parseContent(f.id), isLoading |-> FALSE, error |-> "null",
          isVerified |-> f.isVerified, replies |-> f.replies,
          userActivity |-> ActivityOf(st), isLikedByUser |-> f.isLikedByUser,
          userReplies |-> userReplies]

\* the final setData of fetchData: the snapshot it builds from its locals
Snapshot(f, userReplies, st) ==
    [event |-> f.id, profile |-> f.profile, reactions |-> f.reactions,
     parsedContent |-> parseContent(f.id), isLoading |-> FALSE, error |-> "null",
     isVerified |-> f.isVerified, replies |-> f.replies, userActivity |-> ActivityOf(st),
     isLikedByUser |-> f.isLikedByUser, userReplies |-> userReplies]

\* fetchData from `const isSavedByUser` on, for the run f0 of the bag whose locals
\* are now f: it reads the ledger and the identity state, then either awaits
\* fetchUserLikedEvent or finishes.  (A successful tally is never all-zero: the
\* relays hold a repost and a zap receipt of every item.)
FetchIdentityStage(f0, f) ==
    LET g == [f EXCEPT !.isLikedByUser = hasLikedEvent(f.id),
                       !.publicKey = getIdentityState.publicKey]
    IN IF getIdentityState.publicKey # "null" /\ ~getIdentityState.isLocked
       THEN /\ fetches' = BagAdd(BagDel(fetches, f0), [g EXCEPT !.pc = "userLiked"])
            /\ data' = data
            /\ ret' = NoRet
            /\ UNCHANGED tallyOk
       ELSE /\ fetches' = BagDel(fetches, f0)
            /\ data' = Snapshot(g, <<>>, activity)
            /\ ret' = [op |-> "fetch", eid |-> f.eid]
            /\ tallyOk' = (g.reactions # ZeroCounts)

\* `await Promise.all([fetchAuthorProfile, fetchReactions, fetchReplies])` resolves;
\* each helper gives its default when its query fails.  The arguments are what
\* the relays may answer: the profiles found, and whether each query succeeds
FetchParallelResolved(profiles, reactionOks, replyOks) ==
    \E f \in BagToSet(fetches), profile \in profiles,
       reactionsOk \in reactionOks, repliesOk \in replyOks :
        /\ f.pc = "parallel"
        /\ LET g == [f EXCEPT !.profile = profile,
                              !.reactions = IF reactionsOk THEN NetTally(f.id) ELSE ZeroCounts,
                              !.replies = IF repliesOk THEN netReplies[f.id] ELSE <<>>]
           IN IF profile = "nip05"
              THEN /\ fetches' = BagAdd(BagDel(fetches, f), [g EXCEPT !.pc = "verify"])
                   /\ data' = data
                   /\ ret' = NoRet
                   /\ UNCHANGED tallyOk
              ELSE FetchIdentityStage(f, g)
        /\ scen' = NoRecord
        /\ unliked' = unliked
        /\ UNCHANGED <<activity, encrypted, ephemeralKey, visitVars, sessionKey,
                       faultVars, idCallVars, netVars, eventId, likeCalls, replyCalls>>

\* `await verifyNIP05` resolves (false when the lookup fails or does not match)
FetchVerifyResolved ==
    \E f \in BagToSet(fetches), verified \in BOOLEAN :
        /\ f.pc = "verify"
        /\ FetchIdentityStage(f, [f EXCEPT !.isVerified = verified])
        /\ scen' = NoRecord
        /\ unliked' = unliked
        /\ UNCHANGED <<activity, encrypted, ephemeralKey, visitVars, sessionKey,
                       faultVars, idCallVars, netVars, eventId, likeCalls, replyCalls>>

\* fetchData making the ledger follow the relays in both directions: a like
\* the relays do not hold is removed
FetchUserLikedResolved_SyncBothWays(queryOks) ==
    \E f \in BagToSet(fetches), queryOk \in queryOks :
        /\ f.pc = "userLiked"
        /\ LET networkLiked == queryOk /\ NetUserLiked(f.id, f.publicKey)
               sync == networkLiked /\ ~f.isLikedByUser
           IN /\ activity' = IF sync THEN recordLike(f.id)[2]
                             ELSE IF ~networkLiked THEN removeLike(f.id)[2]
                             ELSE activity
              /\ fetches' = BagAdd(BagDel(fetches, f),
                                   [f EXCEPT !.pc = "userReplies",
                                             !.networkLiked = networkLiked,
                                             !.isLikedByUser = networkLiked])
        /\ ret' = NoRet
        /\ scen' = NoRecord
        /\ unliked' = unliked
        /\ UNCHANGED <<encrypted, ephemeralKey, visitVars, sessionKey, faultVars,
                       idCallVars, netVars, eventId, data, likeCalls, replyCalls, tallyOk>>

\* fetchData marking the item as liked without recording the like it found
FetchUserLikedResolved_NoRecord(queryOks) ==
    \E f \in BagToSet(fetches), queryOk \in queryOks :
        /\ f.pc = "userLiked"
        /\ LET networkLiked == queryOk /\ NetUserLiked(f.id, f.publicKey)
               sync == networkLiked /\ ~f.isLikedByUser
           IN /\ activity' = activity
              /\ fetches' = BagAdd(BagDel(fetches, f),
                                   [f EXCEPT !.pc = "userReplies",
                                             !.networkLiked = networkLiked,
                                             !.isLikedByUser = IF sync THEN TRUE ELSE @])
        /\ ret' = NoRet
        /\ scen' = NoRecord
        /\ unliked' = unliked
        /\ UNCHANGED <<encrypted, ephemeralKey, visitVars, sessionKey, faultVars,
                       idCallVars, netVars, eventId, data, likeCalls, replyCalls, tallyOk>>

\* `await fetchUserLikedEvent` resolves (false when its query fails); a like the
\* ledger copy read earlier does not have is recorded
FetchUserLikedResolved(queryOks) ==
    \E f \in BagToSet(fetches), queryOk \in queryOks :
        /\ f.pc = "userLiked"
        /\ LET networkLiked == queryOk /\ NetUserLiked(f.id, f.publicKey)
               sync == networkLiked /\ ~f.isLikedByUser
           IN /\ activity' = IF sync THEN recordLike(f.id)[2] ELSE activity
              /\ fetches' = BagAdd(BagDel(fetches, f),
                                   [f EXCEPT !.pc = "userReplies",
                                             !.networkLiked = networkLiked,
                                             !.isLikedByUser = IF sync THEN TRUE ELSE @])
        /\ ret' = NoRet
        /\ scen' = NoRecord
        /\ unliked' = unliked
        /\ UNCHANGED <<encrypted, ephemeralKey, visitVars, sessionKey, faultVars,
                       idCallVars, netVars, eventId, data, likeCalls, replyCalls, tallyOk>>

\* `await fetchUserReplies` resolves ([] when its query fails); the final setData
FetchUserRepliesResolved(queryOks) ==
    \E f \in BagToSet(fetches), queryOk \in queryOks :
        /\ f.pc = "userReplies"
        /\ fetches' = BagDel(fetches, f)
        /\ data' = Snapshot(f, IF queryOk THEN NetUserReplies(f.id, f.publicKey) ELSE <<>>,
                            activity)
        /\ ret' = [op |-> "fetch", eid |-> f.eid]
        /\ tallyOk' = (f.reactions # ZeroCounts)
        /\ scen' = NoRecord
        /\ unliked' = unliked
        /\ UNCHANGED <<activity, encrypted, ephemeralKey, visitVars, sessionKey,
                       faultVars, idCallVars, netVars, eventId, likeCalls, replyCalls>>

\* refreshUserActivity
RefreshUserActivity ==
    /\ data' = [data EXCEPT !.userActivity = getUserActivity,
                            !.isLikedByUser = IF data.event # "null"
                                              THEN hasLikedEvent(data.event) ELSE FALSE]
    /\ ret' = [op |-> "refreshUserActivity"]
    /\ scen' = NoRecord
    /\ unliked' = unliked
    /\ UNCHANGED <<activity, encrypted, ephemeralKey, visitVars, sessionKey, faultVars,
                   idCallVars, netVars, eventId, fetches, likeCalls, replyCalls, tallyOk>>

\* publishEvent: the relays take the signed event or not, and pool.publish
\* reports success only when every relay has taken it
PublishOutcomes == {[landed |-> TRUE, ok |-> TRUE], [landed |-> TRUE, ok |-> FALSE],
                    [landed |-> FALSE, ok |-> FALSE]}

\* the unlike branch of toggleLike leaving the tally as it was
Unliked_NoDecrement(d, st) ==
    [d EXCEPT !.isLikedByUser = FALSE, !.userActivity = ActivityOf(st)]

\* the displayed state after the unlike branch of toggleLike
Unliked(d, st) ==
    [d EXCEPT !.isLikedByUser = FALSE,
              !.reactions.likes = Max(0, @ - 1),
              !.userActivity = ActivityOf(st)]

\* the displayed state after a published like
Liked(d, st) ==
    [d EXCEPT !.isLikedByUser = TRUE,
              !.reactions.likes = @ + 1,
              !.userActivity = ActivityOf(st)]

\* the monitor of "toggleLike, then toggleLike" on an item that is not liked, with
\* nothing else running: the displayed count before the first call
ScenBegin ==
    IF InFlight = 0 /\ ~data.isLikedByUser
    THEN [stage |-> "first", id |-> data.event, before |-> DisplayedLikes(data)]
    ELSE NoRecord

\* toggleLike up to `await publishLike`; the unlike branch runs to its return
ToggleLikeStart(keys) ==
    \E privateKey \in keys :
        /\ InFlight < MaxInFlight
        /\ IF data.event = "null"
           THEN /\ ret' = [op |-> "toggleLike", value |-> "null", published |-> "no"]
                /\ scen' = NoRecord
                /\ UNCHANGED <<activity, data, likeCalls, unliked>>
           ELSE IF hasLikedEvent(data.event)
           THEN /\ activity' = removeLike(data.event)[2]
                /\ data' = Unliked(data, removeLike(data.event)[2])
                /\ ret' = [op |-> "toggleLike", value |-> "null", published |-> "no"]
                /\ scen' = IF scen # NoRecord /\ scen.stage = "liked" /\ scen.id = data.event
                           THEN [scen EXCEPT !.stage = "unliked"] ELSE NoRecord
                /\ unliked' = IF fetches = EmptyBag THEN data.event ELSE unliked
                /\ UNCHANGED likeCalls
           ELSE /\ TotalLikes + BagSize(likeCalls) < MaxLikes
                /\ likeCalls' = BagAdd(likeCalls, [id |-> data.event, privateKey |-> privateKey,
                                                   pc |-> "publishing", ok |-> FALSE])
                /\ ret' = NoRet
                /\ scen' = ScenBegin
                /\ UNCHANGED <<activity, data, unliked>>
        /\ UNCHANGED <<encrypted, ephemeralKey, visitVars, sessionKey, faultVars,
                       idCallVars, netVars, eventId, fetches, replyCalls, tallyOk>>

\* the relays answer the publish of a like reaction
LikePublished ==
    \E c \in BagToSet(likeCalls), o \in PublishOutcomes :
        /\ c.pc = "publishing"
        /\ likeCalls' = BagAdd(BagDel(likeCalls, c), [c EXCEPT !.pc = "published", !.ok = o.ok])
        /\ netLikes' = IF o.landed
                       THEN [netLikes EXCEPT ![c.id][c.privateKey] = @ + 1]
                       ELSE netLikes
        /\ ret' = NoRet
        /\ UNCHANGED <<activity, encrypted, ephemeralKey, visitVars, sessionKey, faultVars,
                       idCallVars, others, netReplies, eventId, data, fetches, replyCalls,
                       histVars>>

\* toggleLike from the resolution of publishLike to its return
ToggleLikeResume ==
    \E c \in BagToSet(likeCalls) :
        /\ c.pc = "published"
        /\ likeCalls' = BagDel(likeCalls, c)
        /\ IF c.ok
           THEN /\ activity' = recordLike(c.id)[2]
                /\ data' = Liked(data, recordLike(c.id)[2])
                /\ ret' = [op |-> "toggleLike", value |-> "event", published |-> "ok"]
                /\ scen' = IF scen # NoRecord /\ scen.stage = "first" /\ scen.id = c.id
                           THEN [scen EXCEPT !.stage = "liked"] ELSE NoRecord
                /\ unliked' = IF unliked = c.id THEN "null" ELSE unliked
           ELSE /\ ret' = [op |-> "toggleLike", value |-> "null", published |-> "failed"]
                /\ scen' = NoRecord
                /\ UNCHANGED <<activity, data, unliked>>
        /\ UNCHANGED <<encrypted, ephemeralKey, visitVars, sessionKey, faultVars,
                       idCallVars, netVars, eventId, fetches, replyCalls, tallyOk>>

\* the reply event publishReply signs: its serial number on the relays and its author
ReplyEvent(privateKey) ==
    [n |-> TotalReplies + 1, by |-> getPublicKeyFromPrivate(privateKey)]

\* postReply up to `await publishReply`
PostReplyStart(keys) ==
    \E privateKey \in keys :
        /\ InFlight < MaxInFlight
        /\ IF data.event = "null"
           THEN /\ ret' = [op |-> "postReply", value |-> NoRecord, published |-> "no"]
                /\ UNCHANGED replyCalls
           ELSE /\ TotalReplies + BagSize(replyCalls) < MaxReplies
                /\ replyCalls' = BagAdd(replyCalls,
                                        [id |-> data.event, privateKey |-> privateKey,
                                         pc |-> "publishing", ok |-> FALSE,
                                         event |-> NoRecord])
                /\ ret' = NoRet
        /\ scen' = NoRecord
        /\ unliked' = unliked
        /\ UNCHANGED <<activity, encrypted, ephemeralKey, visitVars, sessionKey, faultVars,
                       idCallVars, netVars, eventId, data, fetches, likeCalls, tallyOk>>

\* the relays answer the publish of a reply
ReplyPublished ==
    \E c \in BagToSet(replyCalls), o \in PublishOutcomes :
        /\ c.pc = "publishing"
        /\ replyCalls' = BagAdd(BagDel(replyCalls, c),
                                [c EXCEPT !.pc = "published", !.ok = o.ok,
                                          !.event = ReplyEvent(c.privateKey)])
        /\ netReplies' = IF o.landed
                         THEN [netReplies EXCEPT ![c.id] = <<ReplyEvent(c.privateKey)>> \o @]
                         ELSE netReplies
        /\ ret' = NoRet
        /\ UNCHANGED <<activity, encrypted, ephemeralKey, visitVars, sessionKey, faultVars,
                       idCallVars, others, netLikes, eventId, data, fetches, likeCalls,
                       histVars>>

\* postReply putting the new reply at the end of the lists
Replied_AtTail(d, e, st) ==
    [d EXCEPT !.replies = @ \o <<e>>, !.userReplies = @ \o <<e>>,
              !.userActivity = ActivityOf(st)]

\* the displayed state after a published reply
Replied(d, e, st) ==
    [d EXCEPT !.replies = <<e>> \o @, !.userReplies = <<e>> \o @,
              !.userActivity = ActivityOf(st)]

\* postReply recording the reply before it looks at what publishReply returned
PostReplyResume_RecordsFirst ==
    \E c \in BagToSet(replyCalls) :
        /\ c.pc = "published"
        /\ replyCalls' = BagDel(replyCalls, c)
        /\ activity' = recordReply(c.id)[2]
        /\ IF c.ok
           THEN /\ data' = Replied(data, c.event, recordReply(c.id)[2])
                /\ ret' = [op |-> "postReply", value |-> c.event, published |-> "ok",
                        id |-> c.id]
           ELSE /\ ret' = [op |-> "postReply", value |-> NoRecord, published |-> "failed",
                        id |-> c.id]
                /\ UNCHANGED data
        /\ scen' = NoRecord
        /\ unliked' = unliked
        /\ UNCHANGED <<encrypted, ephemeralKey, visitVars, sessionKey, faultVars,
                       idCallVars, netVars, eventId, fetches, likeCalls, tallyOk>>

\* postReply from the resolution of publishReply to its return
PostReplyResume ==
    \E c \in BagToSet(replyCalls) :
        /\ c.pc = "published"
        /\ replyCalls' = BagDel(replyCalls, c)
        /\ IF c.ok
           THEN /\ activity' = recordReply(c.id)[2]
                /\ data' = Replied(data, c.event, recordReply(c.id)[2])
                /\ ret' = [op |-> "postReply", value |-> c.event, published |-> "ok",
                        id |-> c.id]
           ELSE /\ ret' = [op |-> "postReply", value |-> NoRecord, published |-> "failed",
                        id |-> c.id]
                /\ UNCHANGED <<activity, data>>
        /\ scen' = NoRecord
        /\ unliked' = unliked
        /\ UNCHANGED <<encrypted, ephemeralKey, visitVars, sessionKey, faultVars,
                       idCallVars, netVars, eventId, fetches, likeCalls, tallyOk>>

----------------------------------------------------------------------------
(* Specifications *)

\* validatePassword(password) called on its own: {isValid, error?}
ValidateCall(password) ==
    /\ ret' = [op |-> "validatePassword", password |-> password,
               isValid |-> (validatePassword(password) = "none"),
               error |-> validatePassword(password)]
    /\ UNCHANGED <<activity, encrypted, ephemeralKey, visitVars, sessionKey, faultVars,
                   idCallVars, netVars, hookVars, histVars>>

(* The vault's two functions called on their own.  The record under           *)
(* 'encrypted' is the one handed to decryptIdentity; between the calls it may *)
(* be altered by whoever can write to the store.                              *)

cryptoFrame == <<activity, ephemeralKey, visitVars, sessionKey, faultVars, idCallVars,
                 netVars, hookVars, histVars>>

\* encryptIdentity(privateKeyHex, password): resolves with the record
EncryptCall(privateKeyHex, password) ==
    \E salt \in Salts, iv \in Ivs :
       /\ encrypted' = encryptIdentity(privateKeyHex, password, salt, iv)
       /\ ret' = [op |-> "encryptIdentity",
                  sealed |-> [privateKeyHex |-> privateKeyHex, password |-> password,
                              record |-> encryptIdentity(privateKeyHex, password, salt, iv)]]
       /\ UNCHANGED cryptoFrame

\* the bytes with one of them changed, or with the last one cut off
ChangedBytes(b) ==
    {[b EXCEPT ![i] = (b[i] + d) % 256] : i \in 1..Len(b), d \in ByteChanges}
       \cup {SubSeq(b, 1, Len(b) - 1)}

\* texts that atob rejects: a symbol outside the alphabet, one symbol too many
UndecodableTexts(t) == {[t EXCEPT ![1] = 65], Append(t, 0)}

\* other texts for the same bytes: without the padding, and with a bit set
\* among those that atob drops at the end (t itself when it has neither)
RecodedTexts(t) ==
    {StripPadding(t)}
       \cup {[t EXCEPT ![i] = t[i] + 1] : i \in {j \in 1..Len(t) - 1 : t[j] # 64 /\ t[j + 1] = 64}}

\* one field of the stored record is overwritten
TamperRecord ==
    /\ ret.op \in {"encryptIdentity", "decryptIdentity"}
    /\ encrypted = ret.sealed.record
    /\ \E field \in {"ciphertext", "iv", "salt"} :
          \E t \in {bufferToBase64(b) : b \in ChangedBytes(base64ToBuffer(encrypted[field]))}
                      \cup UndecodableTexts(encrypted[field])
                      \cup RecodedTexts(encrypted[field]) :
             /\ t # encrypted[field]
             /\ encrypted' = [encrypted EXCEPT ![field] = t]
    /\ ret' = [op |-> "tamper", sealed |-> ret.sealed]
    /\ UNCHANGED cryptoFrame

\* decryptIdentity(encrypted, password): resolves with the plaintext or null
DecryptCall(password) ==
    /\ ret.op \in {"encryptIdentity", "tamper", "decryptIdentity"}
    /\ ret' = [op |-> "decryptIdentity", sealed |-> ret.sealed,
               encrypted |-> encrypted, password |-> password,
               value |-> decryptIdentity(encrypted, password)]
    /\ UNCHANGED <<encrypted, cryptoFrame>>

\* empty stores, nothing in flight, the hook's initial state
InitStores ==
    /\ activity = NoRecord
    /\ encrypted = NoRecord
    /\ ephemeralKey = "null"
    /\ visitCount = 0
    /\ claimedFlag = FALSE
    /\ page = NoRecord
    /\ sessionKey = "null"
    /\ durableFull = FALSE
    /\ sessionFull = FALSE
    /\ creates = EmptyBag
    /\ unlocks = EmptyBag

InitNoNetwork ==
    /\ others = 0
    /\ netLikes = [i \in Items |-> [k \in Keys |-> 0]]
    /\ netReplies = [i \in Items |-> <<>>]

InitNoHook ==
    /\ eventId = "undefined"
    /\ data = InitialData
    /\ fetches = EmptyBag
    /\ likeCalls = EmptyBag
    /\ replyCalls = EmptyBag
    /\ ret = NoRet
    /\ tallyOk = FALSE
    /\ scen = NoRecord
    /\ unliked = "null"

(* The activity ledger on its own, from an empty durable store *)
InitLedger == InitStores /\ InitNoNetwork /\ InitNoHook

NextLedger ==
    \/ RecordLike
    \/ RemoveLike
    \/ RecordSave
    \/ RemoveSave
    \/ RecordReply

SpecLedger == InitLedger /\ [][NextLedger]_vars

(* The identity session: the identity page's operations and the preview page's *)
(* mount, from empty stores                                                     *)
InitIdentity == InitStores /\ InitNoNetwork /\ InitNoHook

NextIdentity ==
    \/ \E password \in Passwords : CreateStart(password)
    \/ CreateResume
    \/ \E password \in Passwords, rememberSession \in BOOLEAN :
          UnlockStart(password, rememberSession)
    \/ UnlockResume
    \/ Lock
    \/ ClearIdentityData
    \/ \E k \in Keys : PreviewMount(k)
    \/ ClearStorage

SpecIdentity == InitIdentity /\ [][NextIdentity]_vars

(* The identity page's operations with the stores failing at will *)
NextIdentityFault ==
    \/ \E password \in Passwords : CreateStart(password)
    \/ CreateResume
    \/ \E password \in Passwords, rememberSession \in BOOLEAN :
          UnlockStart(password, rememberSession)
    \/ UnlockResume
    \/ Lock
    \/ ClearIdentityData
    \/ StorageFault

SpecIdentityFault == InitIdentity /\ [][NextIdentityFault]_vars

(* The identity page's operations with the stores failing at will and the *)
(* Web Crypto calls of encryptIdentity failing at will                    *)
NextCollabFault ==
    \/ \E password \in Passwords : CreateStart(password)
    \/ CreateResume
    \/ \E password \in Passwords, rememberSession \in BOOLEAN :
          UnlockStart(password, rememberSession)
    \/ UnlockResume
    \/ Lock
    \/ ClearIdentityData
    \/ StorageFault
    \/ CreateRejects

SpecCollabFault == InitIdentity /\ [][NextCollabFault]_vars

(* Lock and reset: the identity page's operations with one password, the      *)
(* preview page's mount, the two clearing functions, and likes and replies    *)
(* recorded in the ledger                                                      *)
NextReset ==
    \/ CreateStart("password1")
    \/ CreateResume
    \/ \E password \in {"password1", "password2"} : UnlockStart(password, TRUE)
    \/ UnlockResume
    \/ Lock
    \/ ClearIdentityData
    \/ PreviewMount("k1")
    \/ ClearStorage
    \/ RecordLike
    \/ RecordReply

SpecReset == InitIdentity /\ [][NextReset]_vars

(* The post-preview hook.  The identity is absent, locked or unlocked (an      *)
(* encrypted record of k1, and k1 in the session store when unlocked); the     *)
(* relays hold up to MaxOthers likes by others, possibly a like by k1 made     *)
(* elsewhere and, for each n in seeds, n replies by someone else; the hook is  *)
(* mounted with the identifier of item a and its mount effect has run          *)
(* fetchData.                                                                  *)
InitHookWith(seeds) ==
    /\ activity = NoRecord
    /\ ephemeralKey = "null"
    /\ visitCount = 0
    /\ claimedFlag = FALSE
    /\ page = NoRecord
    /\ durableFull = FALSE
    /\ sessionFull = FALSE
    /\ creates = EmptyBag
    /\ unlocks = EmptyBag
    /\ \E identity \in {"none", "locked", "unlocked"} :
          /\ encrypted = IF identity = "none" THEN NoRecord
                         ELSE encryptIdentity("k1", "password1", <<17>>, <<1, 2, 3>>)
          /\ sessionKey = IF identity = "unlocked" THEN "k1" ELSE "null"
    /\ others \in 0..MaxOthers
    /\ \E mine \in 0..1 :
          netLikes = [i \in Items |-> [k \in Keys |-> IF i = "a" /\ k = "k1" THEN mine ELSE 0]]
    /\ \E n \in seeds :
          netReplies = [i \in Items |->
                          IF i = "a" /\ n = 1 THEN <<[n |-> 0, by |-> "p0"]>> ELSE <<>>]
    /\ eventId = "note1a"
    /\ data = FetchBegin(eventId, InitialData, EmptyBag)[1]
    /\ fetches = FetchBegin(eventId, InitialData, EmptyBag)[2]
    /\ likeCalls = EmptyBag
    /\ replyCalls = EmptyBag
    /\ ret = NoRet
    /\ tallyOk = FALSE
    /\ scen = NoRecord
    /\ unliked = "null"

(* Likes and navigation: fetches of any identifier, refreshes and like toggles *)
(* with the current identity's key; the reaction tally and the query for the   *)
(* identity's own like may fail.                                               *)
InitHook == InitHookWith({0})

NextHook ==
    \/ FetchStart
    \/ ChangeEventId
    \/ FetchEventResolved
    \/ FetchThrows
    \/ FetchParallelResolved({"plain"}, BOOLEAN, {TRUE})
    \/ FetchUserLikedResolved(BOOLEAN)
    \/ FetchUserRepliesResolved({TRUE})
    \/ RefreshUserActivity
    \/ ToggleLikeStart({"k1"})
    \/ LikePublished
    \/ ToggleLikeResume

Spec == InitHook /\ [][NextHook]_vars

(* The activity ledger on its own, from whatever record the durable store    *)
(* holds: JSON.parse takes any stored record as it is, so one written by     *)
(* another release or edited by hand may carry counts that differ from the   *)
(* lengths of its lists.                                                     *)
StoredLists ==
    {<<>>} \cup {<<i>> : i \in Items} \cup
    {l \in {<<i, j>> : i \in Items, j \in Items} : l[1] # l[2]}

StoredActivities ==
    [replies : 0..MaxStoredCount, likes : 0..MaxStoredCount, saves : 0..MaxStoredCount,
     likedEvents : StoredLists, savedEvents : StoredLists, replyEvents : StoredLists]

InitStoredLedger ==
    /\ activity \in {NoRecord} \cup StoredActivities
    /\ encrypted = NoRecord
    /\ ephemeralKey = "null"
    /\ visitCount = 0
    /\ claimedFlag = FALSE
    /\ page = NoRecord
    /\ sessionKey = "null"
    /\ durableFull = FALSE
    /\ sessionFull = FALSE
    /\ creates = EmptyBag
    /\ unlocks = EmptyBag
    /\ InitNoNetwork
    /\ InitNoHook

SpecStoredLedger == InitStoredLedger /\ [][NextLedger]_vars

(* Degradation: fetches and refetches of one item that has a reply and whose  *)
(* author has a profile on the relays, with or without a NIP-05 name; every   *)
(* secondary query and the NIP-05 lookup may fail.  Each helper catches the   *)
(* failure of its own query, so none of them makes fetchData's awaits reject. *)
InitDegrade == InitHookWith({1})

NextDegrade ==
    \/ FetchStart
    \/ FetchEventResolved
    \/ FetchParallelResolved({"plain", "nip05", "null"}, BOOLEAN, BOOLEAN)
    \/ FetchVerifyResolved
    \/ FetchUserLikedResolved(BOOLEAN)
    \/ FetchUserRepliesResolved(BOOLEAN)

SpecDegrade == InitDegrade /\ [][NextDegrade]_vars

(* Publishing: one item, fetched and refetched, with like toggles and replies  *)
(* by the current identity; the reply queries may fail.                        *)
InitPublish == InitHookWith({0, 1})

NextPublish ==
    \/ FetchStart
    \/ FetchEventResolved
    \/ FetchParallelResolved({"plain"}, {TRUE}, BOOLEAN)
    \/ FetchUserLikedResolved({TRUE})
    \/ FetchUserRepliesResolved(BOOLEAN)
    \/ ToggleLikeStart({"k1"})
    \/ LikePublished
    \/ ToggleLikeResume
    \/ PostReplyStart({"k1"})
    \/ ReplyPublished
    \/ PostReplyResume

SpecPublish == InitPublish /\ [][NextPublish]_vars

(* Fetches run to their end: every await of fetchData is a call of the       *)
(* relays (or of the NIP-05 host), and each such call resolves or fails.     *)
FetchStages == {"event", "parallel", "verify", "userLiked", "userReplies"}

\* the identifiers fetchData gets past decoding with
Decodable == {eid \in Identifiers : eid # "undefined" /\ decodeEventId(eid) # "null"}

\* some fetchData run for identifier eid is suspended at the await of stage pc
FetchAt(eid, pc) == \E f \in BagToSet(fetches) : f.eid = eid /\ f.pc = pc

NextFetchLive ==
    \/ FetchStart
    \/ ChangeEventId
    \/ FetchEventResolved
    \/ FetchThrows
    \/ FetchParallelResolved({"plain", "nip05"}, {TRUE}, {TRUE})
    \/ FetchVerifyResolved
    \/ FetchUserLikedResolved(BOOLEAN)
    \/ FetchUserRepliesResolved({TRUE})

\* the call awaited at stage pc resolves
FetchStageResolved(pc) ==
    IF pc = "event" THEN FetchEventResolved
    ELSE IF pc = "parallel" THEN FetchParallelResolved({"plain", "nip05"}, {TRUE}, {TRUE})
    ELSE IF pc = "verify" THEN FetchVerifyResolved
    ELSE IF pc = "userLiked" THEN FetchUserLikedResolved(BOOLEAN)
    ELSE FetchUserRepliesResolved({TRUE})

\* a run for identifier eid suspended at stage pc goes on
FetchAdvance(eid, pc) ==
    /\ FetchStageResolved(pc)
    /\ \E f \in BagToSet(fetches) :
          f.eid = eid /\ f.pc = pc /\ CopiesIn(f, fetches') < CopiesIn(f, fetches)

\* each awaited call resolves or fails, and the run that awaits it goes on
SpecFetchLive ==
    /\ InitHook
    /\ [][NextFetchLive]_vars
    /\ \A eid \in Decodable, pc \in FetchStages : WF_vars(FetchAdvance(eid, pc))

(* Replies posted while fetches of the shown item run; every query of the    *)
(* relays succeeds, so a fetch shows what the relays held when it asked.      *)
NextReplyRace ==
    \/ FetchStart
    \/ FetchEventResolved
    \/ FetchParallelResolved({"plain"}, {TRUE}, {TRUE})
    \/ FetchUserLikedResolved({TRUE})
    \/ FetchUserRepliesResolved({TRUE})
    \/ PostReplyStart({"k1"})
    \/ ReplyPublished
    \/ PostReplyResume

SpecReplyRace == InitPublish /\ [][NextReplyRace]_vars

(* Passwords of every length up to MaxPasswordLen validated on their own;   *)
(* those at the ends of the range and on both sides of the two limits are   *)
(* handed to createEncryptedIdentity, which is followed up to its await.    *)
NextPassword ==
    \/ \E n \in 0..MaxPasswordLen : ValidateCall(PasswordOfLength(n))
    \/ \E n \in {0, 7, 8, 128, 129, MaxPasswordLen} : CreateStart(PasswordOfLength(n))

SpecPassword == InitIdentity /\ [][NextPassword]_vars

(* The preview page visited again and again, with the claim prompt answered *)
(* and the reply and like buttons used; the stores work and may be cleared. *)
NextVisits ==
    \/ \E k \in Keys : PreviewMount(k)
    \/ ClaimIdentity
    \/ DismissClaim
    \/ MarkAsClaimed
    \/ EnsureIdentity
    \/ ClearStorage

SpecVisits == InitIdentity /\ [][NextVisits]_vars

(* The preview page visited again and again and its reply and like buttons  *)
(* used, with the stores failing at will; nothing resets the stores.        *)
NextVisitsFault ==
    \/ \E k \in Keys : PreviewMount(k)
    \/ ClaimIdentity
    \/ DismissClaim
    \/ MarkAsClaimed
    \/ EnsureIdentity
    \/ StorageFault

SpecVisitsFault == InitIdentity /\ [][NextVisitsFault]_vars

(* The vault alone: records are sealed, altered in the store, and opened with *)
(* every password.                                                            *)
NextCrypto ==
    \/ \E k \in Keys, password \in Passwords : EncryptCall(k, password)
    \/ TamperRecord
    \/ \E password \in Passwords : DecryptCall(password)

SpecCrypto == InitIdentity /\ [][NextCrypto]_vars

----------------------------------------------------------------------------
(* Properties *)

\* a sequence without repeated elements
NoDuplicates(s) == Cardinality(SeqToSet(s)) = Len(s)

\* C1: starting from an empty store, after any sequence of recordLike,
\* removeLike, recordSave, removeSave and recordReply the persisted activity
\* record has likes = |likedEvents|, saves = |savedEvents| and
\* replies = |replyEvents|, and none of the three lists holds an id twice.
C1_CountsMatchSets ==
    /\ getUserActivity.likes = Len(getUserActivity.likedEvents)
    /\ getUserActivity.saves = Len(getUserActivity.savedEvents)
    /\ getUserActivity.replies = Len(getUserActivity.replyEvents)
    /\ NoDuplicates(getUserActivity.likedEvents)
    /\ NoDuplicates(getUserActivity.savedEvents)
    /\ NoDuplicates(getUserActivity.replyEvents)

\* C1 happens: a like has just been removed from a ledger that still holds
\* another like, two saves and two replies
C1_Witness ==
    /\ ret.op = "removeLike"
    /\ activity # NoRecord
    /\ Len(activity.likedEvents) = 1
    /\ Len(activity.savedEvents) = 2
    /\ Len(activity.replyEvents) = 2

\* the relays hold a like reaction on item id signed by one of the identity's keys
OwnLikeOnRelays(id) == \E k \in Keys : netLikes[id][k] > 0

\* C2: once a fetch or a toggleLike has completed and a snapshot with the real
\* tally is shown, the like count on display counts the current identity's like
\* once: it is the number of likes by others plus one when the item is shown as
\* liked, and the number of likes by others when it is not liked and the relays
\* hold no like of the identity.
C2_DisplayedCountsOwnLikeOnce ==
    (/\ ret.op \in {"fetch", "toggleLike"}
     /\ data.event # "null"
     /\ data.error = "null"
     /\ tallyOk)
    => /\ data.isLikedByUser => DisplayedLikes(data) = others + 1
       /\ (~data.isLikedByUser /\ ~OwnLikeOnRelays(data.event))
             => DisplayedLikes(data) = others

\* C3: when no fetch is running and the current identifier names an item, a
\* snapshot on display without an error is the snapshot of that item: the
\* result of a fetch issued for an earlier identifier has not replaced it.
C3_SnapshotIsOfCurrentIdentifier ==
    (/\ BagSize(fetches) = 0
     /\ decodeEventId(eventId) # "null"
     /\ data.event # "null"
     /\ data.error = "null")
    => data.event = decodeEventId(eventId)

\* C4: a postReply or a toggleLike whose publish failed returns null, and the
\* step in which it returns changes neither the activity ledger nor anything
\* on display (the reply lists, isLikedByUser, the like count).
C4_FailedPublishChangesNothing ==
    [][(ret'.op \in {"postReply", "toggleLike"} /\ ret'.published = "failed")
       => /\ IF ret'.op = "postReply" THEN ret'.value = NoRecord ELSE ret'.value = "null"
          /\ activity' = activity
          /\ data' = data]_vars

\* C4 happens: a postReply has just returned after its publish failed, on an
\* item that is shown as liked and already carries a reply of the identity
C4_Witness ==
    /\ ret.op = "postReply"
    /\ ret.published = "failed"
    /\ data.isLikedByUser
    /\ Len(data.userReplies) > 0
    /\ activity # NoRecord

\* C5: after toggleLike on an item that is not liked, with the publish
\* succeeding, and then toggleLike again, with nothing else run in between,
\* the item is not shown as liked, it is not in likedEvents, and the like count
\* on display is what it was before the first call.
C5_LikeThenUnlikeRestores ==
    (scen # NoRecord /\ scen.stage = "unliked")
    => /\ ~data.isLikedByUser
       /\ ~hasLikedEvent(scen.id)
       /\ DisplayedLikes(data) = scen.before

\* C5 happens: the second toggleLike has returned, on an item others have liked
C5_Witness ==
    /\ scen # NoRecord
    /\ scen.stage = "unliked"
    /\ scen.before > 0
    /\ ret.op = "toggleLike"

\* C6: while an encrypted identity record exists, no createIdentity call gets
\* past its check: a call with a valid password returns at once with the
\* failure "Identity already exists" and no public key, and the stored record
\* is left as it was.
C6_SecondCreateRejected ==
    [][hasEncryptedIdentity
       => /\ BagSize(creates') <= BagSize(creates)
          /\ (/\ ret'.op = "createIdentity"
              /\ creates' = creates
              /\ validatePassword(ret'.password) = "none")
             => /\ ret'.error = "Identity already exists"
                /\ ret'.publicKey = ""
                /\ encrypted' = encrypted]_vars

\* C6 happens: createIdentity with a valid password has just been rejected
\* while a record is stored
C6_Witness ==
    /\ ret.op = "createIdentity"
    /\ ret.error = "Identity already exists"
    /\ validatePassword(ret.password) = "none"
    /\ hasEncryptedIdentity
    /\ BagSize(creates) = 0

\* C7: the durable store never holds an ephemeral key and an encrypted
\* identity record at the same time.
C7_OneIdentityRecord == ~(getEphemeralKey # "null" /\ hasEncryptedIdentity)

\* C8: when createIdentity succeeds for a visitor whose ephemeral key was in
\* the store when the call was made, the public key it returns is that key's,
\* and the stored record opens under the password to that key.
C8_EphemeralKeyGraduates ==
    (/\ ret.op = "createIdentity"
     /\ ret.error = "none"
     /\ ret.ephemeral # "null")
    => /\ ret.publicKey = getPublicKeyFromPrivate(ret.ephemeral)
       /\ decryptIdentity(encrypted, ret.password) = ret.ephemeral

\* the record is one that encryptIdentity makes under this password
SealedUnder(enc, password) ==
    \E k \in Keys, salt \in Salts, iv \in Ivs : enc = encryptIdentity(k, password, salt, iv)

\* C9: unlock returns "No identity found" exactly when no encrypted record
\* exists at the call, and "Invalid password" exactly when the record it
\* loaded was sealed under another password; either way it returns no key, and
\* the step in which it returns leaves the session cache and the durable
\* record as they were and a locked identity locked.
C9_FailedUnlockChangesNothing ==
    [][ret'.op = "unlock"
       => /\ (unlocks' = unlocks) => (~hasEncryptedIdentity /\ ret'.error = "No identity found")
          /\ (unlocks' # unlocks) => ret'.error # "No identity found"
          /\ (ret'.error = "Invalid password")
                <=> (ret'.encrypted # NoRecord
                     /\ ~SealedUnder(ret'.encrypted, ret'.password))
          /\ (ret'.error # "none")
                => /\ ret'.privateKey = ""
                   /\ ret'.publicKey = ""
                   /\ sessionKey' = sessionKey
                   /\ encrypted' = encrypted
                   /\ getIdentityState.isLocked => getIdentityState'.isLocked]_vars

\* C9 happens: an unlock with the wrong password has just failed while a key
\* of an earlier unlock is cached
C9_Witness ==
    /\ ret.op = "unlock"
    /\ ret.error = "Invalid password"
    /\ hasEncryptedIdentity
    /\ sessionKey # "null"

\* C10: when unlock called with rememberSession returns a key pair, the
\* session cache holds the private key it returned (a failing session-store
\* write makes unlock fail instead).
C10_RememberedUnlockIsCached ==
    (/\ ret.op = "unlock"
     /\ ret.error = "none"
     /\ ret.rememberSession)
    => sessionKey = ret.privateKey

\* C11: lock removes the cached private key from the session store and
\* changes nothing else: the encrypted record, the activity ledger, the
\* ephemeral key and the visit data are as before, and the identity state
\* afterwards is locked when an encrypted record exists and no-identity
\* otherwise.
C11_LockClearsSessionOnly ==
    [][ret'.op = "lock"
       => /\ sessionKey' = "null"
          /\ encrypted' = encrypted
          /\ activity' = activity
          /\ ephemeralKey' = ephemeralKey
          /\ visitCount' = visitCount
          /\ claimedFlag' = claimedFlag
          /\ getIdentityState' = [publicKey |-> "null",
                                  isLocked |-> encrypted # NoRecord,
                                  hasIdentity |-> encrypted # NoRecord]]_vars

\* C11 happens: lock has just dropped a cached key while a record and a
\* ledger are stored
C11_Witness ==
    /\ ret.op = "lock"
    /\ ret.cached # "null"
    /\ encrypted # NoRecord
    /\ activity # NoRecord
    /\ getIdentityState.isLocked

\* C12: once burnIdentity has completed, no encrypted identity record, no
\* ephemeral key, no activity ledger and no cached session key remain: the
\* identity state is no-identity and the activity read back is the all-zero
\* default.
C12_BurnClearsEverything ==
    ret.op = "clearIdentityData"
    => /\ encrypted = NoRecord
       /\ getEphemeralKey = "null"
       /\ activity = NoRecord
       /\ sessionKey = "null"
       /\ ~getIdentityState.hasIdentity
       /\ getUserActivity = getDefaultActivity

\* C13: recordLike, recordSave and recordReply are idempotent: in the state a
\* call for id X leaves behind, the same call for X again gives the persisted
\* record that is already there.
C13_RecordIsIdempotent ==
    [][/\ ret'.op = "recordLike" => (recordLike(ret.id)[2])' = activity'
       /\ ret'.op = "recordSave" => (recordSave(ret.id)[2])' = activity'
       /\ ret'.op = "recordReply" => (recordReply(ret.id)[2])' = activity']_vars

\* C13 happens: recordReply has just been called for an id the ledger already
\* had, on a ledger that also holds a like and a save, and changed nothing
C13_Witness ==
    /\ ret.op = "recordReply"
    /\ ~ret.changed
    /\ activity # NoRecord
    /\ Includes(activity.replyEvents, ret.id)
    /\ Len(activity.likedEvents) > 0
    /\ Len(activity.savedEvents) > 0

\* C14: removeLike and removeSave for an id that is not in the list leave the
\* persisted record as it was, and after any sequence of record and remove
\* calls the likes and saves counts are not negative.
C14_RemoveAbsentIsNoOp ==
    [][/\ (ret'.op = "removeLike" /\ ~hasLikedEvent(ret'.id)) => activity' = activity
       /\ (ret'.op = "removeSave" /\ ~hasSavedEvent(ret'.id)) => activity' = activity
       /\ getUserActivity'.likes >= 0
       /\ getUserActivity'.saves >= 0]_vars

\* C14 happens: removeLike has just been called for an id that is not liked
\* while another id is, and changed nothing
C14_Witness ==
    /\ ret.op = "removeLike"
    /\ ~ret.changed
    /\ activity # NoRecord
    /\ Len(activity.likedEvents) = 1
    /\ ~hasLikedEvent(ret.id)

\* C15: a postReply whose publish succeeded returns the event the relays
\* took, has the id of the item replied to in the ledger's replyEvents, and
\* puts the event at the head of the general reply list and of the identity's
\* own reply list; and the ledger's replyEvents and, outside a fetch's
\* snapshot, the two lists change in no other step than that return.
C15_ReplyRecordedAfterPublish ==
    [][/\ (ret'.op = "postReply" /\ ret'.published = "ok")
          => /\ Includes(netReplies[ret'.id], ret'.value)
             /\ Includes(getUserActivity'.replyEvents, ret'.id)
             /\ data'.replies = <<ret'.value>> \o data.replies
             /\ data'.userReplies = <<ret'.value>> \o data.userReplies
       /\ (\/ getUserActivity'.replyEvents # getUserActivity.replyEvents
           \/ /\ ret'.op # "fetch"
              /\ \/ data'.replies # data.replies
                 \/ data'.userReplies # data.userReplies)
          => (ret'.op = "postReply" /\ ret'.published = "ok")]_vars

\* C15 happens: a published reply has just been put in front of a reply
\* already on display
C15_Witness ==
    /\ ret.op = "postReply"
    /\ ret.published = "ok"
    /\ Len(data.replies) >= 2
    /\ data.replies[1] = ret.value
    /\ Includes(getUserActivity.replyEvents, ret.id)

\* C16: when the query for the unlocked identity's own like on item X
\* answers that the relays hold one, and the ledger had no like of X when the
\* fetch read it and has none now, the fetch records it: X is in likedEvents,
\* the likes count is one more than it was, and the fetch holds X as liked;
\* and a fetch that got that answer ends with a snapshot of X that reports
\* isLikedByUser = TRUE.
C16_NetworkLikeIsSynced ==
    [][\A f \in BagToSet(fetches) :
          /\ (/\ f.pc = "userLiked"
              /\ ~f.isLikedByUser
              /\ ~hasLikedEvent(f.id)
              /\ \E g \in BagToSet(fetches') :
                    /\ g.pc = "userReplies"
                    /\ g.networkLiked
                    /\ fetches' = BagAdd(BagDel(fetches, f), g))
             => /\ hasLikedEvent(f.id)'
                /\ getUserActivity'.likes = getUserActivity.likes + 1
                /\ \A g \in BagToSet(fetches') \ BagToSet(fetches) : g.isLikedByUser
          /\ (/\ f.pc = "userReplies"
              /\ f.networkLiked
              /\ fetches' = BagDel(fetches, f))
             => /\ ret'.op = "fetch"
                /\ data'.event = f.id
                /\ data'.error = "null"
                /\ data'.isLikedByUser]_vars

\* C16 happens: the first fetch of an item has found the identity's like on
\* the relays and recorded it in a ledger that had none
C16_Witness ==
    /\ data.event = "null"
    /\ \E f \in BagToSet(fetches) :
          /\ f.pc = "userReplies"
          /\ f.networkLiked
          /\ f.isLikedByUser
          /\ hasLikedEvent(f.id)
    /\ getUserActivity.likes = 1

\* C17: a fetch of an identifier that does not decode ends at once with the
\* error "Invalid event ID" and no request to the relays, and a fetch that
\* ends with the not-found error was at its first request, the one for the
\* item, so the profile, reaction and reply queries were never issued; both
\* leave the activity ledger as it was.
C17_InvalidAndNotFound ==
    [][/\ (/\ ret'.op = "fetch"
           /\ ret'.eid # "undefined"
           /\ ret'.eid \notin {"note1a", "nevent1b"})
          => /\ data'.error = "Invalid event ID"
             /\ ~data'.isLoading
             /\ fetches' = fetches
             /\ activity' = activity
       /\ (/\ ret'.op = "fetch"
           /\ data'.error = "Event not found. It may not exist on the relays.")
          => /\ \E f \in BagToSet(fetches) :
                   /\ f.pc = "event"
                   /\ f.eid = ret'.eid
                   /\ fetches' = BagDel(fetches, f)
             /\ ~data'.isLoading
             /\ data'.event = data.event
             /\ activity' = activity]_vars

\* C17 happens: a fetch has just ended with the not-found error while the
\* ledger holds a like and another item is on display
C17_Witness ==
    /\ ret.op = "fetch"
    /\ ret.eid = "nevent1b"
    /\ data.error = "Event not found. It may not exist on the relays."
    /\ data.event = "a"
    /\ activity # NoRecord

\* C17 happens too: a fetch of an undecodable identifier has just ended
C17_WitnessInvalid ==
    /\ ret.op = "fetch"
    /\ ret.eid = "junk"
    /\ data.error = "Invalid event ID"
    /\ activity # NoRecord

\* C18: once the item itself has been fetched, the fetch ends with a snapshot
\* of the item and no error whatever the secondary sources did: the profile is
\* the one found or null, and with a null profile isVerified is FALSE; the
\* counts are the relays' tally or all zero; the replies are the relays' list
\* or empty; a profile without a verified NIP-05 name gives isVerified FALSE.
C18_SecondaryFailuresDegrade ==
    [][\A f \in BagToSet(fetches) :
          (f.pc # "event" /\ fetches' = BagDel(fetches, f))
          => /\ ret' = [op |-> "fetch", eid |-> f.eid]
             /\ data'.error = "null"
             /\ ~data'.isLoading
             /\ data'.event = f.id
             /\ data'.profile \in {"plain", "nip05", "null"}
             /\ data'.profile # "nip05" => ~data'.isVerified
             /\ data'.reactions \in {NetTally(f.id), ZeroCounts}
             /\ data'.replies \in {netReplies[f.id], <<>>}]_vars

\* C18 happens: a fetch has just ended with a snapshot although the profile,
\* the reaction and the reply queries all failed (the relays hold a reply and
\* a non-zero tally)
C18_Witness ==
    /\ ret.op = "fetch"
    /\ data.error = "null"
    /\ data.event = "a"
    /\ data.profile = "null"
    /\ ~data.isVerified
    /\ data.reactions = ZeroCounts
    /\ data.replies = <<>>
    /\ netReplies["a"] # <<>>
    /\ NetTally("a") # ZeroCounts

\* C18 happens too: a fetch has just ended with a snapshot of an item whose
\* author's NIP-05 name could not be verified
C18_WitnessUnverified ==
    /\ ret.op = "fetch"
    /\ data.error = "null"
    /\ data.profile = "nip05"
    /\ ~data.isVerified

\* some field of the record no longer decodes, or decodes to other bytes than
\* the field of the sealed record
Altered(rec, sealedRec) ==
    \E field \in {"ciphertext", "iv", "salt"} :
       \/ base64ToBuffer(rec[field]) = Thrown
       \/ base64ToBuffer(rec[field]) # base64ToBuffer(sealedRec[field])

\* C19: decryptIdentity, given the record that encryptIdentity(K, P) made and
\* the same password P, returns exactly K.
C19_DecryptInvertsEncrypt ==
    (/\ ret.op = "decryptIdentity"
     /\ ret.encrypted = ret.sealed.record
     /\ ret.password = ret.sealed.password)
       => ret.value = ret.sealed.privateKeyHex

\* a record whose salt is padded in base64 and whose nonce is not was opened
\* with its own password and gave back the key
C19_Witness ==
    /\ ret.op = "decryptIdentity"
    /\ ret.encrypted = ret.sealed.record
    /\ ret.password = ret.sealed.password
    /\ ret.value = ret.sealed.privateKeyHex
    /\ ret.value \in Keys
    /\ \E i \in 1..Len(ret.encrypted.salt) : ret.encrypted.salt[i] = 64

\* C20: decryptIdentity always returns (it never throws), and what it returns
\* is null or the sealed key, never another plaintext; it returns null for
\* every password other than the one the record was sealed with, and for every
\* record whose ciphertext, nonce or salt was changed or no longer decodes.
C20_DecryptRejectsOrReturnsKey ==
    ret.op = "decryptIdentity" =>
       /\ ret.value \in {"null", ret.sealed.privateKeyHex}
       /\ ret.password # ret.sealed.password => ret.value = "null"
       /\ Altered(ret.encrypted, ret.sealed.record) => ret.value = "null"

\* a record with an undecodable field was opened with the right password and
\* gave null
C20_Witness ==
    /\ ret.op = "decryptIdentity"
    /\ ret.password = ret.sealed.password
    /\ \E field \in {"ciphertext", "iv", "salt"} :
          base64ToBuffer(ret.encrypted[field]) = Thrown
    /\ ret.value = "null"

\* an untouched record was opened with another password and gave null
C20_WitnessWrongPassword ==
    /\ ret.op = "decryptIdentity"
    /\ ret.encrypted = ret.sealed.record
    /\ ret.password # ret.sealed.password
    /\ ret.value = "null"

\* a record with one changed ciphertext byte was opened with the right
\* password and gave null
C20_WitnessChangedCiphertext ==
    /\ ret.op = "decryptIdentity"
    /\ ret.password = ret.sealed.password
    /\ base64ToBuffer(ret.encrypted.ciphertext) # Thrown
    /\ base64ToBuffer(ret.encrypted.ciphertext) # base64ToBuffer(ret.sealed.record.ciphertext)
    /\ ret.value = "null"

\* a record written with another text for the same bytes still opens
RecodedRecordOpens ==
    /\ ret.op = "decryptIdentity"
    /\ ret.encrypted # ret.sealed.record
    /\ ~Altered(ret.encrypted, ret.sealed.record)
    /\ ret.value = ret.sealed.privateKeyHex

C21_WitnessCreateRejected ==
    /\ ret.op = "createIdentity"
    /\ Len(ret.password) = 129
    /\ ret.error = "Password must be less than 128 characters"

\* C22: once a keypair has been generated, every later preview-page mount and
\* every later reply or like uses the same private key, and a stored key is
\* never replaced.
C22_KeyGeneratedOnce ==
    [][/\ (page # NoRecord /\ ret'.op = "mount")
          => page'.currentPrivateKey = page.currentPrivateKey
       /\ (page # NoRecord /\ ret'.op = "ensureIdentity")
          => ret'.privateKey = page.currentPrivateKey
       /\ (ret.op = "ensureIdentity" /\ ret'.op = "ensureIdentity")
          => ret'.privateKey = ret.privateKey
       /\ getEphemeralKey # "null" => getEphemeralKey' = getEphemeralKey]_vars

\* C22 with working stores: the key of the first mount is the key of every
\* later mount, reply and like
C22_HoldsWhileStoresWork ==
    [][(~durableFull /\ getEphemeralKey # "null")
       => /\ ret'.op = "mount" => page'.currentPrivateKey = getEphemeralKey
          /\ ret'.op = "ensureIdentity" => ret'.privateKey = getEphemeralKey
          /\ getEphemeralKey' = getEphemeralKey]_vars

\* C23: every preview-page visit raises the stored visit count by exactly 1;
\* the claim prompt is offered on a visit exactly when that visit is the
\* second or a later one and the identity has not been marked claimed;
\* markAsClaimed withdraws the prompt, and the mark stays until the store is
\* cleared, so no later visit offers the prompt again.
C23_ClaimPromptFollowsVisits ==
    [][/\ ret'.op = "mount"
          => /\ getVisitCount' = getVisitCount + 1
             /\ page'.visitCount = getVisitCount'
             /\ ClaimOffered(page') <=> (getVisitCount' >= 2 /\ ~hasClaimed)
       /\ ret'.op = "markAsClaimed" => (hasClaimed' /\ ~ClaimOffered(page'))
       /\ (hasClaimed /\ ret'.op # "clearStorage")
          => (hasClaimed' /\ ~ClaimOffered(page'))]_vars

\* the third visit, after the identity was marked claimed on the second:
\* no prompt
C23_Witness ==
    /\ ret.op = "mount"
    /\ page.visitCount = 3
    /\ hasClaimed
    /\ ~ClaimOffered(page)

\* the third visit of an identity that was never marked claimed: the prompt
C23_WitnessOffered ==
    /\ ret.op = "mount"
    /\ page.visitCount = 3
    /\ ~hasClaimed
    /\ ClaimOffered(page)

\* the first visit: no prompt
C23_WitnessFirstVisit ==
    /\ ret.op = "mount"
    /\ page.visitCount = 1
    /\ ~ClaimOffered(page)

\* C24: createIdentity, unlock, postReply, toggleLike and fetch never end by
\* throwing or rejecting, and createIdentity and unlock end with a key or with
\* an error, never both and never neither.
C24_NoFailureEscapes ==
    /\ ret.op \in {"createIdentity", "unlock", "postReply", "toggleLike", "fetch"}
       => "thrown" \notin DOMAIN ret
    /\ ret.op = "createIdentity" => ((ret.publicKey # "") # (ret.error # "none"))
    /\ ret.op = "unlock" => ((ret.privateKey # "") # (ret.error # "none"))

\* C24 for the failures that are caught: a store that cannot be written and a
\* record that cannot be decrypted end createIdentity and unlock with a key or
\* with an error, never both and never neither
C24_CaughtFailuresAreReported ==
    (ret.op \in {"createIdentity", "unlock"} /\ "thrown" \notin DOMAIN ret)
       => IF ret.op = "createIdentity"
          THEN (ret.publicKey # "") # (ret.error # "none")
          ELSE (ret.privateKey # "") # (ret.error # "none")

\* C25: every record or remove operation that changes a list persists a
\* record whose count for that list equals the list's length, whatever the
\* count of the record it read.
C25_CountRederivedOnMutation ==
    [][ret'.op \in {"recordLike", "removeLike", "recordSave", "removeSave", "recordReply"}
       /\ ret'.changed
       => /\ ret'.op \in {"recordLike", "removeLike"}
             => getUserActivity'.likes = Len(getUserActivity'.likedEvents)
          /\ ret'.op \in {"recordSave", "removeSave"}
             => getUserActivity'.saves = Len(getUserActivity'.savedEvents)
          /\ ret'.op = "recordReply"
             => getUserActivity'.replies = Len(getUserActivity'.replyEvents)]_vars

\* C25 for records whose counts are right: every operation keeps them right
C25_RightCountsStayRight ==
    [][(/\ getUserActivity.likes = Len(getUserActivity.likedEvents)
        /\ getUserActivity.saves = Len(getUserActivity.savedEvents)
        /\ getUserActivity.replies = Len(getUserActivity.replyEvents))
       => (/\ getUserActivity'.likes = Len(getUserActivity'.likedEvents)
           /\ getUserActivity'.saves = Len(getUserActivity'.savedEvents)
           /\ getUserActivity'.replies = Len(getUserActivity'.replyEvents))]_vars

\* C26: while the ledger records the displayed item as liked, toggleLike
\* starts no publish; it returns null at once, leaves the relays alone, takes
\* the item out of likedEvents (and touches no other list), shows the item as
\* not liked and lowers the displayed like count by 1, but not below 0.
C26_UnlikeIsLocal ==
    [][(data.event # "null" /\ hasLikedEvent(data.event))
       => /\ BagSize(likeCalls') <= BagSize(likeCalls)
          /\ (ret'.op = "toggleLike" /\ ret'.published = "no")
             => /\ ret'.value = "null"
                /\ UNCHANGED <<netVars, likeCalls>>
                /\ ~Includes(getUserActivity'.likedEvents, data.event)
                /\ getUserActivity'.savedEvents = getUserActivity.savedEvents
                /\ getUserActivity'.replyEvents = getUserActivity.replyEvents
                /\ ~data'.isLikedByUser
                /\ DisplayedLikes(data') = Max(0, DisplayedLikes(data) - 1)
                /\ data'.event = data.event]_vars

\* C26 with the tally of the snapshot in place of the count on display: the
\* unlike is local, clears the ledger entry and the flag, and lowers
\* reactions.likes by 1, but not below 0
C26_UnlikeLowersTally ==
    [][(data.event # "null" /\ hasLikedEvent(data.event))
       => /\ BagSize(likeCalls') <= BagSize(likeCalls)
          /\ (ret'.op = "toggleLike" /\ ret'.published = "no")
             => /\ ret'.value = "null"
                /\ UNCHANGED <<netVars, likeCalls>>
                /\ ~Includes(getUserActivity'.likedEvents, data.event)
                /\ getUserActivity'.savedEvents = getUserActivity.savedEvents
                /\ getUserActivity'.replyEvents = getUserActivity.replyEvents
                /\ ~data'.isLikedByUser
                /\ data'.reactions.likes = Max(0, data.reactions.likes - 1)
                /\ data'.event = data.event]_vars

C27_WitnessNotRemembered ==
    /\ ret.op = "unlock"
    /\ ret.error = "none"
    /\ ~ret.rememberSession
    /\ sessionKey = "null"

\* a step of some fetchData run
FetchStep == fetches' # fetches \/ ret'.op = "fetch"

\* C28: a step of a fetch changes the ledger only by appending the fetched
\* item's id to likedEvents, and only when the fetch found the identity
\* unlocked and the relays hold that identity's like of the item; it removes
\* no id and leaves savedEvents and replyEvents alone.  With no identity or a
\* locked one no fetch reaches the per-identity queries and no step of a fetch
\* changes the ledger.
C28_FetchOnlyAddsOwnLike ==
    [][/\ FetchStep
          => /\ getUserActivity'.savedEvents = getUserActivity.savedEvents
             /\ getUserActivity'.saves = getUserActivity.saves
             /\ getUserActivity'.replyEvents = getUserActivity.replyEvents
             /\ getUserActivity'.replies = getUserActivity.replies
             /\ SeqToSet(getUserActivity.likedEvents) \subseteq SeqToSet(getUserActivity'.likedEvents)
             /\ activity' # activity
                => \E f \in BagToSet(fetches) :
                      /\ f.pc = "userLiked"
                      /\ f.publicKey # "null"
                      /\ f.publicKey = getIdentityState.publicKey
                      /\ ~getIdentityState.isLocked
                      /\ NetUserLiked(f.id, f.publicKey)
                      /\ getUserActivity' = LikeAdded(getUserActivity, f.id)
       /\ (getIdentityState.publicKey = "null" \/ getIdentityState.isLocked)
          => /\ \A f \in BagToSet(fetches') : f.pc \notin {"userLiked", "userReplies"}
             /\ FetchStep => activity' = activity]_vars

\* a fetch has just added the identity's like of the item to a ledger that
\* already held a like of another item
C28_Witness ==
    /\ \E f \in BagToSet(fetches) :
          /\ f.pc = "userReplies"
          /\ f.networkLiked
          /\ hasLikedEvent(f.id)
          /\ Len(getUserActivity.likedEvents) = 2
          /\ getUserActivity.likedEvents[2] = f.id
    /\ ret = NoRet

\* a fetch by a locked identity whose like is on the relays has ended with the
\* ledger empty
C28_WitnessLocked ==
    /\ ret.op = "fetch"
    /\ data.event # "null"
    /\ data.error = "null"
    /\ getIdentityState.isLocked
    /\ OwnLikeOnRelays(data.event)
    /\ ~hasLikedEvent(data.event)

\* C29: whenever an identity record is stored, a createIdentity call returns
\* at once with the failure "Identity already exists", whatever its password
\* argument, a password that fails validation included.
C29_ExistingRecordAlwaysAlreadyExists ==
    [][(/\ hasEncryptedIdentity
        /\ ret'.op = "createIdentity"
        /\ creates' = creates)
       => ret'.error = "Identity already exists"]_vars

\* what the code does for C29's case: with a record stored the call still
\* fails and writes nothing, the failure being the validation message when the
\* password is not valid and "Identity already exists" otherwise
C29_ValidationReportedFirst ==
    [][(/\ hasEncryptedIdentity
        /\ ret'.op = "createIdentity"
        /\ creates' = creates)
       => /\ ret'.publicKey = ""
          /\ encrypted' = encrypted
          /\ ret'.error = IF validatePassword(ret'.password) # "none"
                          THEN validatePassword(ret'.password)
                          ELSE "Identity already exists"]_vars

\* C30: the snapshot is replaced as a whole by each fetch: when a fetch has
\* just ended in an error the snapshot holds no event, counts, reply lists or
\* like mark left over from an earlier fetch.
C30_FailedFetchLeavesNothingOver ==
    (ret.op = "fetch" /\ data.error # "null")
    => /\ data.event = InitialData.event
       /\ data.reactions = InitialData.reactions
       /\ data.replies = InitialData.replies
       /\ data.userReplies = InitialData.userReplies
       /\ data.isLikedByUser = InitialData.isLikedByUser

\* what the code does for C30's case: a fetch that ends in an error changes
\* isLoading and error only, and a refresh changes userActivity and
\* isLikedByUser only
C30_FailureKeepsEarlierSnapshot ==
    [][/\ (ret'.op = "fetch" /\ data'.error # "null")
          => data' = [data EXCEPT !.isLoading = FALSE, !.error = data'.error]
       /\ ret'.op = "refreshUserActivity"
          => data' = [data EXCEPT !.userActivity = data'.userActivity,
                                  !.isLikedByUser = data'.isLikedByUser]]_vars

\* C31: the reported identity state follows from three facts only: with a
\* cached session key it is unlocked with that key's public key; otherwise
\* with an encrypted record it is locked with no public key; otherwise with a
\* durable ephemeral keypair it is unlocked with that keypair's public key;
\* otherwise there is no identity.
C31_StateFromThreeFacts ==
    getIdentityState =
        IF sessionKey # "null"
        THEN [publicKey |-> getPublicKeyFromPrivate(sessionKey), isLocked |-> FALSE,
              hasIdentity |-> TRUE]
        ELSE IF encrypted # NoRecord
        THEN [publicKey |-> "null", isLocked |-> TRUE, hasIdentity |-> TRUE]
        ELSE IF getEphemeralKey # "null"
        THEN [publicKey |-> getPublicKeyFromPrivate(getEphemeralKey), isLocked |-> FALSE,
              hasIdentity |-> TRUE]
        ELSE [publicKey |-> "null", isLocked |-> FALSE, hasIdentity |-> FALSE]

\* what the code does for C31's case: the state follows from the session key
\* and the encrypted record alone, and a stored ephemeral keypair without a
\* session key is reported as no identity
C31_EphemeralKeyNotRead ==
    /\ sessionKey # "null"
       => getIdentityState = [publicKey |-> getPublicKeyFromPrivate(sessionKey),
                              isLocked |-> FALSE, hasIdentity |-> TRUE]
    /\ (sessionKey = "null" /\ encrypted # NoRecord)
       => getIdentityState = [publicKey |-> "null", isLocked |-> TRUE, hasIdentity |-> TRUE]
    /\ (sessionKey = "null" /\ encrypted = NoRecord)
       => getIdentityState = [publicKey |-> "null", isLocked |-> FALSE,
                              hasIdentity |-> FALSE]

\* C32: whenever no fetch, like or reply is in flight and the snapshot holds an
\* event, the snapshot's isLikedByUser says whether that event's id is in the
\* ledger's likedEvents.
C32_LikedMarkMatchesLedger ==
    (InFlight = 0 /\ data.event # "null")
    => data.isLikedByUser = hasLikedEvent(data.event)

\* the toggleLike calls for item id whose reaction event the relays have taken
\* and which have not returned yet
LandedLikeCalls(id) ==
    SumOver([c \in BagToSet(likeCalls) |->
                IF c.id = id /\ c.pc = "published" /\ c.ok THEN CopiesIn(c, likeCalls) ELSE 0],
            BagToSet(likeCalls))

\* C33: of the toggleLike calls for one not-yet-liked item that overlap (all
\* started before any of them returned), at most one publishes a reaction
\* event.
C33_OverlappingLikesPublishOnce ==
    \A id \in Items : LandedLikeCalls(id) <= 1

\* C34: of the createIdentity calls that overlap while no identity exists at
\* most one reports success: a call never reports success over a record that
\* another call stored while it was encrypting, and the record stored by a
\* successful call is sealed under that call's password.
C34_OverlappingCreatesOneSuccess ==
    [][(ret'.op = "createIdentity" /\ ret'.error = "none")
       => /\ ~hasEncryptedIdentity
          /\ SealedUnder(encrypted', ret'.password)]_vars

\* C35: in every state, those where lock or clearIdentityData ran while an
\* unlock was decrypting included, the session store holds a private key only
\* if the durable store holds an encrypted identity record.
C35_SessionKeyNeedsRecord ==
    sessionKey # "null" => hasEncryptedIdentity

\* C36: an unlike survives a later fetch: after toggleLike has removed an item
\* from the ledger (and until toggleLike likes it again) no fetch started
\* afterwards puts the item back into likedEvents, and a fetch of the item
\* that has just succeeded reports it as not liked, whatever the relays hold.
C36_UnlikeSurvivesFetch ==
    unliked # "null"
    => /\ ~hasLikedEvent(unliked)
       /\ (ret.op = "fetch" /\ data.error = "null" /\ data.event = unliked)
          => ~data.isLikedByUser

\* what the code does for C36's case: the unlike stands as long as no fetch
\* of the item by the unlocked identity finds the identity's reaction on the
\* relays
C36_UnlikeStandsUntilSynced ==
    [][(/\ unliked # "null"
        /\ unliked' = unliked
        /\ ~hasLikedEvent(unliked)
        /\ hasLikedEvent(unliked)')
       => \E f \in BagToSet(fetches) :
             /\ f.pc = "userLiked"
             /\ f.id = unliked
             /\ NetUserLiked(f.id, f.publicKey)]_vars

\* C37: a reply that postReply has just published for the unlocked identity
\* and returned is not lost when a fetch of the same item that was already running completes next: the
\* new snapshot still has the reply in the general reply list and in the
\* identity's own reply list.
C37_ReplySurvivesRunningFetch ==
    [][(/\ ret.op = "postReply"
        /\ ret.published = "ok"
        /\ ret.value.by = getIdentityState.publicKey
        /\ ret'.op = "fetch"
        /\ data'.error = "null"
        /\ data'.event = ret.id)
       => /\ Includes(data'.replies, ret.value)
          /\ Includes(data'.userReplies, ret.value)]_vars

\* C38: the ledger's replies count is the number of distinct items replied
\* to: a successful postReply on an item raises it by 1 when the item had no
\* recorded reply and leaves it alone when it had one, so any number of
\* successful replies to one item raise it by exactly 1 in total, while each
\* of them adds one reply to the identity's own reply list.
C38_RepliesCountDistinctItems ==
    [][(ret'.op = "postReply" /\ ret'.published = "ok")
       => /\ getUserActivity'.replies =
                getUserActivity.replies
                + (IF Includes(getUserActivity.replyEvents, ret'.id) THEN 0 ELSE 1)
          /\ getUserActivity'.replies = Cardinality(SeqToSet(getUserActivity'.replyEvents))
          /\ Len(data'.userReplies) = Len(data.userReplies) + 1]_vars

\* C38 happens: the second successful reply to one item has just returned; the
\* own reply list holds both replies and the ledger counts one
C38_Witness ==
    /\ ret.op = "postReply"
    /\ ret.published = "ok"
    /\ Len(data.userReplies) = 2
    /\ data.userReplies[1] = ret.value
    /\ data.userReplies[2].by = ret.value.by
    /\ data.event = ret.id
    /\ getUserActivity.replies = 1
    /\ getUserActivity.replyEvents = <<ret.id>>

\* C39: provided every awaited call resolves or fails, every fetch that is
\* started finishes, and it finishes with isLoading = FALSE on every path: the
\* returns for a missing or undecodable identifier, item not found, success,
\* and the catch block.
C39_FetchAlwaysFinishes ==
    /\ [](ret.op = "fetch" => ~data.isLoading)
    /\ \A eid \in Decodable, pc \in FetchStages :
          FetchAt(eid, pc) ~> (ret.op = "fetch" /\ ret.eid = eid /\ ~data.isLoading)

\* C39 happens: a fetch has just finished in the catch block while another
\* run is still suspended
C39_Witness ==
    /\ ret.op = "fetch"
    /\ data.error = "Failed to load event. Please try again."
    /\ ~data.isLoading
    /\ fetches # EmptyBag

\* a fetch has just finished with a snapshot, after the per-identity queries
C39_WitnessSuccess ==
    /\ ret.op = "fetch"
    /\ data.error = "null"
    /\ data.event # "null"
    /\ ~data.isLoading
    /\ getIdentityState.publicKey # "null"
    /\ fetches = EmptyBag

====
